---------------------------- MODULE Spec2Model ----------------------------
(***************************************************************************)
(* TDoA ranging engine of the Crazyflie firmware: the clock-correction     *)
(* filter (clockCorrectionEngine.c), the anchor storage (tdoaStorage.c),   *)
(* the TDoA engine (tdoaEngine.c) and the TDoA2 tag driver                 *)
(* (lpsTdoa2Tag.c).                                                        *)
(*                                                                         *)
(* Number representation.  TLC's integers are 32 bits wide, the program's  *)
(* time stamps are 64-bit integers that hold 40-bit radio time stamps.  A  *)
(* time stamp is therefore a pair <<hi, lo>> of two 20-bit limbs, its      *)
(* value being hi * 2^20 + lo.  A double that holds a clock correction is  *)
(* a fixed-point integer in units of 10^-9 (CC_ONE is 1.0); a quotient of  *)
(* 2.0 or more is held as CC_SAT.  A millisecond time is a uint32_t, kept  *)
(* as the int32_t of the same bits.                                        *)
(***************************************************************************)
EXTENDS Integers, Sequences, FiniteSets, TLC

VARIABLES
  \* the clock-correction module on its own
  ccStorage,      \* a clockCorrectionStorage_t
  ccLast,         \* the last call on ccStorage: its arguments, the storage before, the result
  ccRun,          \* the run of consecutive updates with one candidate
  ccReliableSeen, \* whether an update has returned reliable since the storage was zeroed
  \* the masked subtraction on its own
  maskIn,         \* the two time stamps and the elapsed ticks between them
  maskOut,        \* what the engine computes from them
  \* the tag: engine, storage and driver
  anchorInfoArray, \* tdoaEngineState.anchorInfoArray
  matchingOffset,  \* tdoaEngineState.matching.offset
  previousAnchor,  \* the driver's previousAnchor
  rangingOk,       \* the driver's rangingOk
  now_ms,          \* the time of the last packet, in ms since boot
  packetCount,     \* the number of packets received
  last,            \* the last packet: what came in and what the engine did with it
  heard,           \* the anchors a packet has been received from since init
  \* the storage called on its own (it works on anchorInfoArray and now_ms)
  stTime,          \* the time since boot, not reduced to 32 bits
  stNotes,         \* per slot: when its record was last updated and given a position
  stOrder,         \* the calls of tdoaStorageGetCreateAnchorCtx so far, in order
  stLast,          \* the last call: its arguments, the storage before, what it gave
  \* the driver's LPP transmission and what it publishes
  lppPacketToSend,         \* the driver's lppPacketToSend
  lppPacket,               \* the driver's lppPacket: its destination
  lppPacketSendTryCounter, \* the driver's lppPacketSendTryCounter
  history,                 \* the driver's history: anchorStatusTimeout per anchor
  rangingState,            \* what locoDeckSetRangingState was last called with
  lastEvent,               \* the last event: what came in and what onEvent did
  lppLog,                  \* the LPP packets fetched and transmitted so far
  \* the statistics of the engine on their own
  tdoaStats,       \* tdoaEngineState.stats: the focus ids and what is tracked for them
  statsLast        \* the last call on tdoaStats: its time and the statistics before

ccVars == <<ccStorage, ccLast, ccRun, ccReliableSeen>>
maskVars == <<maskIn, maskOut>>
engineVars == <<anchorInfoArray, matchingOffset, previousAnchor, rangingOk, now_ms, packetCount, last, heard>>
storageVars == <<stTime, stNotes, stOrder, stLast>>
driverVars == <<lppPacketToSend, lppPacket, lppPacketSendTryCounter, history, rangingState,
                lastEvent, lppLog>>
statsVars == <<tdoaStats, statsLast>>
vars == <<ccStorage, ccLast, ccRun, ccReliableSeen, maskIn, maskOut,
          anchorInfoArray, matchingOffset, previousAnchor, rangingOk, now_ms, packetCount, last,
          heard, stTime, stNotes, stOrder, stLast,
          lppPacketToSend, lppPacket, lppPacketSendTryCounter, history, rangingState,
          lastEvent, lppLog, tdoaStats, statsLast>>

-----------------------------------------------------------------------------
(* Limbs *)

LimbBase == 2 ^ 20

TsZero == <<0, 0>>

\* A 40-bit value as a time stamp, from a plain integer below 2^20 * 2^11.
TsOfInt(n) == <<n \div LimbBase, n % LimbBase>>

\* The plain integer of a time stamp below 2^31.
TsToInt(t) == t[1] * LimbBase + t[2]

TsLess(a, b) == (a[1] < b[1]) \/ (a[1] = b[1] /\ a[2] < b[2])

\* a + b, limbs not reduced modulo anything (the caller masks).
TsAddRaw(a, b) ==
  LET lo == a[2] + b[2]
  IN  <<a[1] + b[1] + (lo \div LimbBase), lo % LimbBase>>

\* a - b for b <= a.
TsSubRaw(a, b) ==
  LET borrow == IF a[2] < b[2] THEN 1 ELSE 0
  IN  <<a[1] - b[1] - borrow, a[2] + borrow * LimbBase - b[2]>>

\* The low 40 bits of the 64-bit two's-complement difference a - b.
TsSub64(a, b) ==
  LET borrow == IF a[2] < b[2] THEN 1 ELSE 0
  IN  <<(a[1] - b[1] - borrow) % LimbBase, a[2] + borrow * LimbBase - b[2]>>

\* (a + b) mod 2^40: a 40-bit hardware counter that advances by b.
TsAdd40(a, b) ==
  LET s == TsAddRaw(a, b)
  IN  <<s[1] % LimbBase, s[2]>>

\* x & mask for a mask of the form 2^k - 1, limb by limb.
TsAnd(x, mask) == <<x[1] % (mask[1] + 1), x[2] % (mask[2] + 1)>>

-----------------------------------------------------------------------------
(* Times in milliseconds are uint32_t.  One is kept as the int32_t of the   *)
(* same 32 bits: the times of the first 2^31 ms read as themselves, the    *)
(* cast to int32_t is the identity and the casts back wrap.                *)

Int32Max == (2 ^ 30 - 1) * 2 + 1
Int32Min == (0 - Int32Max) - 1

\* a + b in 32 bits.
U32Add(a, b) ==
  IF a >= 0 /\ b >= 0
  THEN IF a > Int32Max - b THEN ((a - Int32Max) - 1) + ((b - Int32Max) - 1) ELSE a + b
  ELSE IF a < 0 /\ b < 0
  THEN IF a >= Int32Min - b THEN a + b ELSE ((a + Int32Max) + 1) + ((b + Int32Max) + 1)
  ELSE a + b

\* a - b in 32 bits, for a b that is not 2^31.
U32Sub(a, b) == U32Add(a, 0 - b)

\* a < b as uint32_t.
U32Less(a, b) == IF (a < 0) = (b < 0) THEN a < b ELSE b < 0

\* (t * k) mod 2^32 as a tick count, for a time t and 0 <= k < 2^14.
U32TimesSmall(t, k) ==
  LET high == ((t \div 65536) * k) % 65536
      low == (t % 65536) * k
  IN  <<((high \div 16) + (((high % 16) * 65536 + low) \div LimbBase)) % 4096,
        ((high % 16) * 65536 + low) % LimbBase>>

-----------------------------------------------------------------------------
(* clockCorrectionEngine.c *)

CC_ONE == 10 ^ 9
CC_SAT == 2 * CC_ONE
CC_FAILED == 0 - CC_ONE

\* MAX_CLOCK_DEVIATION_SPEC 10e-6
MAX_CLOCK_DEVIATION_SPEC == 10000
CLOCK_CORRECTION_SPEC_MIN == CC_ONE - MAX_CLOCK_DEVIATION_SPEC * 2
CLOCK_CORRECTION_SPEC_MAX == CC_ONE + MAX_CLOCK_DEVIATION_SPEC * 2
\* CLOCK_CORRECTION_ACCEPTED_NOISE 0.03e-6
CLOCK_CORRECTION_ACCEPTED_NOISE == 30
\* CLOCK_CORRECTION_FILTER 0.1, as a number of tenths
CLOCK_CORRECTION_FILTER == 1
CLOCK_CORRECTION_BUCKET_MAX == 4

truncateTimeStamp(timeStamp, mask) == TsAnd(timeStamp, mask)

\* How many times b fits in t, for t < 10 * b.
RECURSIVE CountFits(_, _)
CountFits(t, b) == IF TsLess(t, b) THEN 0 ELSE 1 + CountFits(TsSubRaw(t, b), b)

\* floor(r * 10^k / b) for r < b, by decimal long division.
RECURSIVE FracDigits(_, _, _)
FracDigits(r, b, k) ==
  IF k = 0 THEN 0
  ELSE LET t == <<r[1] * 10 + ((r[2] * 10) \div LimbBase), (r[2] * 10) % LimbBase>>
           d == CountFits(t, b)
           rest == IF d = 0 THEN t
                   ELSE TsSubRaw(t, <<b[1] * d + ((b[2] * d) \div LimbBase),
                                      (b[2] * d) % LimbBase>>)
       IN  d * (10 ^ (k - 1)) + FracDigits(rest, b, k - 1)

\* (double)a / (double)b for b # 0, to nine decimals.
DoubleDiv(a, b) ==
  IF ~TsLess(a, TsAddRaw(b, b)) THEN CC_SAT
  ELSE LET ip == IF TsLess(a, b) THEN 0 ELSE 1
           r0 == IF ip = 1 THEN TsSubRaw(a, b) ELSE a
       IN  ip * CC_ONE + FracDigits(r0, b, 9)

\* truncateTimeStamp(new_t - old_t, mask), the tick count of lines 141 and 142.
TickCount(new_t, old_t, mask) == truncateTimeStamp(TsSub64(new_t, old_t), mask)

clockCorrectionEngineCalculate(new_t_in_cl_reference, old_t_in_cl_reference, new_t_in_cl_x, old_t_in_cl_x, mask) ==
  LET tickCount_in_cl_reference ==
        TickCount(new_t_in_cl_reference, old_t_in_cl_reference, mask)
      tickCount_in_cl_x == TickCount(new_t_in_cl_x, old_t_in_cl_x, mask)
  IN  IF tickCount_in_cl_x = TsZero THEN CC_FAILED
      ELSE DoubleDiv(tickCount_in_cl_reference, tickCount_in_cl_x)

\* A clockCorrectionStorage_t after memset(0).
ClockCorrectionStorageZero == [clockCorrection |-> 0, clockCorrectionBucket |-> 0]

\* A fill that does not saturate.
FillBucketUnsaturated(storage) == [storage EXCEPT !.clockCorrectionBucket = @ + 1]

fillClockCorrectionBucket(storage) ==
  IF storage.clockCorrectionBucket < CLOCK_CORRECTION_BUCKET_MAX
  THEN [storage EXCEPT !.clockCorrectionBucket = @ + 1]
  ELSE storage

\* An emptying that reports an empty bucket whatever it held.
EmptyBucketAlwaysEmpty(storage) ==
  [storage |-> [storage EXCEPT !.clockCorrectionBucket = IF @ > 0 THEN @ - 1 ELSE 0],
   result |-> TRUE]

\* The storage afterwards and the value returned.
emptyClockCorrectionBucket(storage) ==
  IF storage.clockCorrectionBucket > 0
  THEN [storage |-> [storage EXCEPT !.clockCorrectionBucket = @ - 1], result |-> FALSE]
  ELSE [storage |-> storage, result |-> TRUE]

\* The condition of the if at line 211.
WithinAcceptedNoise(difference) ==
  /\ (0 - CLOCK_CORRECTION_ACCEPTED_NOISE) < difference
  /\ difference < CLOCK_CORRECTION_ACCEPTED_NOISE

\* No spec limits at all.
WithinSpecAnything(clockCorrectionCandidate) == TRUE

\* The condition of the if at line 235.
WithinSpec(clockCorrectionCandidate) ==
  /\ CLOCK_CORRECTION_SPEC_MIN < clockCorrectionCandidate
  /\ clockCorrectionCandidate < CLOCK_CORRECTION_SPEC_MAX

\* A filter with the two weights exchanged.
LowPassFilterSlow(currentClockCorrection, clockCorrectionCandidate) ==
  currentClockCorrection
    + ((CLOCK_CORRECTION_FILTER * (clockCorrectionCandidate - currentClockCorrection) + 5)
         \div 10)

\* current * FILTER + candidate * (1.0 - FILTER), rounded to the nearest unit;
\* the two differ by less than the accepted noise where this is evaluated.
LowPassFilter(currentClockCorrection, clockCorrectionCandidate) ==
  currentClockCorrection
    + (((10 - CLOCK_CORRECTION_FILTER)
         * (clockCorrectionCandidate - currentClockCorrection) + 5) \div 10)

\* An update that never takes a new reference.
UpdateWithoutReseed(storage, clockCorrectionCandidate) ==
  LET difference == clockCorrectionCandidate - storage.clockCorrection
  IN  IF WithinAcceptedNoise(difference)
      THEN [storage |-> [fillClockCorrectionBucket(storage) EXCEPT
                           !.clockCorrection =
                              LowPassFilter(storage.clockCorrection, clockCorrectionCandidate)],
            result |-> TRUE]
      ELSE [storage |-> emptyClockCorrectionBucket(storage).storage, result |-> FALSE]

\* The storage afterwards and sampleIsReliable.
clockCorrectionEngineUpdate(storage, clockCorrectionCandidate) ==
  LET currentClockCorrection == storage.clockCorrection
      difference == clockCorrectionCandidate - currentClockCorrection
  IN  IF WithinAcceptedNoise(difference)
      THEN [storage |-> [fillClockCorrectionBucket(storage) EXCEPT
                           !.clockCorrection =
                              LowPassFilter(currentClockCorrection,
                                            clockCorrectionCandidate)],
            result |-> TRUE]
      ELSE LET e == emptyClockCorrectionBucket(storage)
           IN  IF e.result /\ WithinSpec(clockCorrectionCandidate)
               THEN [storage |-> [e.storage EXCEPT
                                    !.clockCorrection = clockCorrectionCandidate],
                     result |-> FALSE]
               ELSE [storage |-> e.storage, result |-> FALSE]

-----------------------------------------------------------------------------
(* tdoaEngine.h *)

\* 0x00FFFFFFFF
TDOA_ENGINE_TRUNCATE_TO_ANCHOR_TS_BITMAP == <<4095, 1048575>>

\* A truncation to 40 bits, 0xFFFFFFFFFF.
TruncateTo40Bits(fullTimeStamp) == TsAnd(fullTimeStamp, <<1048575, 1048575>>)

tdoaEngineTruncateToAnchorTimeStamp(fullTimeStamp) ==
  TsAnd(fullTimeStamp, TDOA_ENGINE_TRUNCATE_TO_ANCHOR_TS_BITMAP)

-----------------------------------------------------------------------------
(* tdoaStorage.c.  The anchor storage is a function from the slot indexes  *)
(* 0 .. ANCHOR_STORAGE_COUNT - 1 to anchor records; an anchor context is   *)
(* the index of the slot it points at and the time it was taken at.  Of a  *)
(* position only x is kept, y and z being handled like x.                  *)

\* Number of anchors of a TDoA2 system (8 in the firmware).
LOCODECK_NR_OF_TDOA2_ANCHORS == 3
\* The driver refuses to compile with a storage or a table of remote data
\* smaller than the anchors; the storage has room for one anchor more.
ANCHOR_STORAGE_COUNT == LOCODECK_NR_OF_TDOA2_ANCHORS + 1
REMOTE_ANCHOR_DATA_COUNT == LOCODECK_NR_OF_TDOA2_ANCHORS
TOF_PER_ANCHOR_COUNT == LOCODECK_NR_OF_TDOA2_ANCHORS

TOF_VALIDITY_PERIOD == 2 * 1000
REMOTE_DATA_VALIDITY_PERIOD == 30
ANCHOR_POSITION_VALIDITY_PERIOD == 2 * 1000
ANCHOR_ACTIVE_VALIDITY_PERIOD == 2 * 1000

\* No slot: the -1 of the scans, the null anchorInfo of a context.
NoSlot == 0 - 1
\* The initial oldestTime 0xFFFFFFFF.
NoOldestTime == 0 - 1

RemoteAnchorDataZero == [id |-> 0, rxTime |-> TsZero, seqNr |-> 0, endOfLife |-> 0]
RemoteTofZero == [id |-> 0, tof |-> 0, endOfLife |-> 0]
PositionZero == [timestamp |-> 0, x |-> 0]

\* A tdoaAnchorInfo_t after memset(0).
AnchorInfoZero ==
  [isInitialized |-> FALSE, id |-> 0, rxTime |-> TsZero, txTime |-> TsZero, seqNr |-> 0,
   lastUpdateTime |-> 0, clockCorrectionStorage |-> ClockCorrectionStorageZero,
   position |-> PositionZero,
   remoteAnchorData |-> [i \in 0..(REMOTE_ANCHOR_DATA_COUNT - 1) |-> RemoteAnchorDataZero],
   remoteTof |-> [i \in 0..(TOF_PER_ANCHOR_COUNT - 1) |-> RemoteTofZero]]

tdoaStorageInitialize == [i \in 0..(ANCHOR_STORAGE_COUNT - 1) |-> AnchorInfoZero]

initializeSlot(anchorStorage, slot, anchor) ==
  [anchorStorage EXCEPT ![slot] = [AnchorInfoZero EXCEPT !.id = anchor, !.isInitialized = TRUE]]

\* A scan that keeps the slot updated last rather than first.
RECURSIVE GetCreateScanYoungest(_, _, _, _, _, _)
GetCreateScanYoungest(anchorStorage, anchor, i, newestUpdateTime, newestSlot, firstUninitializedSlot) ==
  IF i = ANCHOR_STORAGE_COUNT
  THEN [found |-> FALSE,
        slot |-> IF firstUninitializedSlot # NoSlot THEN firstUninitializedSlot ELSE newestSlot]
  ELSE IF anchorStorage[i].isInitialized
       THEN IF anchor = anchorStorage[i].id
            THEN [found |-> TRUE, slot |-> i]
            ELSE IF i = 0 \/ U32Less(newestUpdateTime, anchorStorage[i].lastUpdateTime)
                 THEN GetCreateScanYoungest(anchorStorage, anchor, i + 1,
                                            anchorStorage[i].lastUpdateTime, i,
                                            firstUninitializedSlot)
                 ELSE GetCreateScanYoungest(anchorStorage, anchor, i + 1, newestUpdateTime,
                                            newestSlot, firstUninitializedSlot)
       ELSE GetCreateScanYoungest(anchorStorage, anchor, i + 1, newestUpdateTime, newestSlot,
                                  IF firstUninitializedSlot = NoSlot THEN i
                                  ELSE firstUninitializedSlot)

\* The loop of tdoaStorageGetCreateAnchorCtx from slot i on.
RECURSIVE GetCreateScan(_, _, _, _, _, _)
GetCreateScan(anchorStorage, anchor, i, oldestUpdateTime, oldestSlot, firstUninitializedSlot) ==
  IF i = ANCHOR_STORAGE_COUNT
  THEN [found |-> FALSE,
        slot |-> IF firstUninitializedSlot # NoSlot THEN firstUninitializedSlot ELSE oldestSlot]
  ELSE IF anchorStorage[i].isInitialized
       THEN IF anchor = anchorStorage[i].id
            THEN [found |-> TRUE, slot |-> i]
            ELSE IF U32Less(anchorStorage[i].lastUpdateTime, oldestUpdateTime)
                 THEN GetCreateScan(anchorStorage, anchor, i + 1,
                                    anchorStorage[i].lastUpdateTime, i, firstUninitializedSlot)
                 ELSE GetCreateScan(anchorStorage, anchor, i + 1,
                                    oldestUpdateTime, oldestSlot, firstUninitializedSlot)
       ELSE GetCreateScan(anchorStorage, anchor, i + 1, oldestUpdateTime, oldestSlot,
                          IF firstUninitializedSlot = NoSlot THEN i ELSE firstUninitializedSlot)

\* A tdoaStorageGetCreateAnchorCtx that takes a slot without looking for the id.
GetCreateWithoutLookup(anchorStorage, anchor, currentTime_ms) ==
  LET s == GetCreateScan(anchorStorage, NoSlot, 0, currentTime_ms, 0, NoSlot)
  IN  [anchorStorage |-> initializeSlot(anchorStorage, s.slot, anchor), result |-> FALSE,
       anchorCtx |-> [anchorInfo |-> s.slot, currentTime_ms |-> currentTime_ms]]

\* A storage that leaves its records alone once every slot is taken.
GetCreateUnlessFull(anchorStorage, anchor, currentTime_ms) ==
  LET s == GetCreateScan(anchorStorage, anchor, 0, currentTime_ms, 0, NoSlot)
      ctx == [anchorInfo |-> s.slot, currentTime_ms |-> currentTime_ms]
  IN  IF s.found
      THEN [anchorStorage |-> anchorStorage, result |-> TRUE, anchorCtx |-> ctx]
      ELSE IF \A i \in DOMAIN anchorStorage : anchorStorage[i].isInitialized
           THEN [anchorStorage |-> anchorStorage, result |-> FALSE, anchorCtx |-> ctx]
           ELSE [anchorStorage |-> initializeSlot(anchorStorage, s.slot, anchor),
                 result |-> FALSE, anchorCtx |-> ctx]

\* A storage that gives every id it does not hold the first slot.
GetCreateInFirstSlot(anchorStorage, anchor, currentTime_ms) ==
  LET s == GetCreateScan(anchorStorage, anchor, 0, currentTime_ms, 0, NoSlot)
      slot == IF s.found THEN s.slot ELSE 0
  IN  [anchorStorage |-> IF s.found THEN anchorStorage
                         ELSE initializeSlot(anchorStorage, slot, anchor),
       result |-> s.found,
       anchorCtx |-> [anchorInfo |-> slot, currentTime_ms |-> currentTime_ms]]

\* The storage afterwards, the value returned and the context filled in.
tdoaStorageGetCreateAnchorCtx(anchorStorage, anchor, currentTime_ms) ==
  LET s == GetCreateScan(anchorStorage, anchor, 0, currentTime_ms, 0, NoSlot)
      ctx == [anchorInfo |-> s.slot, currentTime_ms |-> currentTime_ms]
  IN  IF s.found
      THEN [anchorStorage |-> anchorStorage, result |-> TRUE, anchorCtx |-> ctx]
      ELSE [anchorStorage |-> initializeSlot(anchorStorage, s.slot, anchor),
            result |-> FALSE, anchorCtx |-> ctx]

\* A look-up that takes a slot for the id when no record holds it.
GetAnchorCtxCreating(anchorStorage, anchor, currentTime_ms) ==
  tdoaStorageGetCreateAnchorCtx(anchorStorage, anchor, currentTime_ms)

\* The storage afterwards (the function writes to *anchorCtx only), the
\* value returned and the context filled in.
tdoaStorageGetAnchorCtx(anchorStorage, anchor, currentTime_ms) ==
  LET hits == {i \in DOMAIN anchorStorage :
                 anchorStorage[i].isInitialized /\ anchorStorage[i].id = anchor}
  IN  IF hits = {}
      THEN [anchorStorage |-> anchorStorage, result |-> FALSE,
            anchorCtx |-> [anchorInfo |-> NoSlot, currentTime_ms |-> currentTime_ms]]
      ELSE [anchorStorage |-> anchorStorage, result |-> TRUE,
            anchorCtx |-> [anchorInfo |-> CHOOSE i \in hits : \A j \in hits : i <= j,
                           currentTime_ms |-> currentTime_ms]]

\* The loop of tdoaStorageGetListOfAnchorIds from slot i on, count ids listed.
RECURSIVE AnchorIdsFrom(_, _, _, _)
AnchorIdsFrom(anchorStorage, maxListSize, i, count) ==
  IF i >= ANCHOR_STORAGE_COUNT \/ count >= maxListSize THEN <<>>
  ELSE IF anchorStorage[i].isInitialized
       THEN <<anchorStorage[i].id>> \o AnchorIdsFrom(anchorStorage, maxListSize, i + 1, count + 1)
       ELSE AnchorIdsFrom(anchorStorage, maxListSize, i + 1, count)

\* unorderedAnchorList[0 .. count - 1] as a sequence.
tdoaStorageGetListOfAnchorIds(anchorStorage, maxListSize) ==
  AnchorIdsFrom(anchorStorage, maxListSize, 0, 0)

\* The loop of tdoaStorageGetListOfActiveAnchorIds from slot i on.
RECURSIVE ActiveAnchorIdsFrom(_, _, _, _, _)
ActiveAnchorIdsFrom(anchorStorage, maxListSize, expiryTime, i, count) ==
  IF i >= ANCHOR_STORAGE_COUNT \/ count >= maxListSize THEN <<>>
  ELSE IF anchorStorage[i].isInitialized /\ U32Less(expiryTime, anchorStorage[i].lastUpdateTime)
       THEN <<anchorStorage[i].id>>
              \o ActiveAnchorIdsFrom(anchorStorage, maxListSize, expiryTime, i + 1, count + 1)
       ELSE ActiveAnchorIdsFrom(anchorStorage, maxListSize, expiryTime, i + 1, count)

\* expiryTime is computed and compared in uint32_t.
tdoaStorageGetListOfActiveAnchorIds(anchorStorage, maxListSize, currentTime_ms) ==
  ActiveAnchorIdsFrom(anchorStorage, maxListSize,
                      U32Sub(currentTime_ms, ANCHOR_ACTIVE_VALIDITY_PERIOD), 0, 0)

tdoaStorageIsAnchorInStorage(anchorStorage, anchor) ==
  \E i \in DOMAIN anchorStorage :
    anchorStorage[i].isInitialized /\ anchorStorage[i].id = anchor

tdoaStorageGetId(anchorStorage, anchorCtx) == anchorStorage[anchorCtx.anchorInfo].id
tdoaStorageGetRxTime(anchorStorage, anchorCtx) == anchorStorage[anchorCtx.anchorInfo].rxTime
tdoaStorageGetTxTime(anchorStorage, anchorCtx) == anchorStorage[anchorCtx.anchorInfo].txTime
tdoaStorageGetSeqNr(anchorStorage, anchorCtx) == anchorStorage[anchorCtx.anchorInfo].seqNr
tdoaStorageGetLastUpdateTime(anchorStorage, anchorCtx) == anchorStorage[anchorCtx.anchorInfo].lastUpdateTime
tdoaStorageGetClockCorrectionStorage(anchorStorage, anchorCtx) == anchorStorage[anchorCtx.anchorInfo].clockCorrectionStorage

clockCorrectionEngineGet(storage) == storage.clockCorrection

tdoaStorageGetClockCorrection(anchorStorage, anchorCtx) ==
  clockCorrectionEngineGet(anchorStorage[anchorCtx.anchorInfo].clockCorrectionStorage)

\* now - PERIOD is computed in uint32_t and read as an int32_t, the time stamp
\* is read as an int32_t, and the two are compared as signed numbers.
tdoaStorageGetAnchorPosition(anchorStorage, anchorCtx) ==
  LET now == anchorCtx.currentTime_ms
      validCreationTime == U32Sub(now, ANCHOR_POSITION_VALIDITY_PERIOD)
      anchorInfo == anchorStorage[anchorCtx.anchorInfo]
  IN  [result |-> anchorInfo.position.timestamp > validCreationTime,
       position |-> anchorInfo.position]

tdoaStorageSetAnchorPosition(anchorStorage, anchorCtx, x) ==
  [anchorStorage EXCEPT ![anchorCtx.anchorInfo].position =
                           [timestamp |-> anchorCtx.currentTime_ms, x |-> x]]

tdoaStorageSetRxTxData(anchorStorage, anchorCtx, rxTime, txTime, seqNr) ==
  [anchorStorage EXCEPT ![anchorCtx.anchorInfo] =
     [@ EXCEPT !.rxTime = rxTime, !.txTime = txTime, !.seqNr = seqNr,
               !.lastUpdateTime = anchorCtx.currentTime_ms]]

\* The first of the entries 0 .. count - 1, from i on, that holds id.
RECURSIVE FirstEntryWithId(_, _, _, _)
FirstEntryWithId(entries, count, id, i) ==
  IF i = count THEN NoSlot
  ELSE IF entries[i].id = id THEN i
  ELSE FirstEntryWithId(entries, count, id, i + 1)

\* The loops of tdoaStorageSetRemoteRxTime and tdoaStorageSetRemoteTimeOfFlight.
RECURSIVE IndexToUpdate(_, _, _, _, _, _)
IndexToUpdate(entries, count, id, i, oldestTime, indexToUpdate) ==
  IF i = count THEN indexToUpdate
  ELSE IF entries[i].id = id THEN i
  ELSE IF U32Less(entries[i].endOfLife, oldestTime)
       THEN IndexToUpdate(entries, count, id, i + 1, entries[i].endOfLife, i)
       ELSE IndexToUpdate(entries, count, id, i + 1, oldestTime, indexToUpdate)

tdoaStorageGetRemoteRxTimeSeqNr(anchorStorage, anchorCtx, remoteAnchor) ==
  LET entries == anchorStorage[anchorCtx.anchorInfo].remoteAnchorData
      i == FirstEntryWithId(entries, REMOTE_ANCHOR_DATA_COUNT, remoteAnchor, 0)
  IN  IF i # NoSlot /\ U32Less(anchorCtx.currentTime_ms, entries[i].endOfLife)
      THEN [result |-> TRUE, rxTime |-> entries[i].rxTime, seqNr |-> entries[i].seqNr]
      ELSE [result |-> FALSE, rxTime |-> TsZero, seqNr |-> 0]

tdoaStorageGetRemoteRxTime(anchorStorage, anchorCtx, remoteAnchor) ==
  LET r == tdoaStorageGetRemoteRxTimeSeqNr(anchorStorage, anchorCtx, remoteAnchor)
  IN  IF r.result THEN r.rxTime ELSE TsZero

tdoaStorageSetRemoteRxTime(anchorStorage, anchorCtx, remoteAnchor, remoteRxTime, remoteSeqNr) ==
  LET entries == anchorStorage[anchorCtx.anchorInfo].remoteAnchorData
      indexToUpdate == IndexToUpdate(entries, REMOTE_ANCHOR_DATA_COUNT, remoteAnchor, 0, NoOldestTime, 0)
  IN  [anchorStorage EXCEPT ![anchorCtx.anchorInfo].remoteAnchorData[indexToUpdate] =
         [id |-> remoteAnchor, rxTime |-> remoteRxTime, seqNr |-> remoteSeqNr,
          endOfLife |-> U32Add(anchorCtx.currentTime_ms, REMOTE_DATA_VALIDITY_PERIOD)]]

\* The entries of the list from entry i on: the ids and sequence numbers of
\* the remote data that has not expired, in the order of the entries.
RECURSIVE RemoteSeqNrListFrom(_, _, _)
RemoteSeqNrListFrom(entries, now, i) ==
  IF i = REMOTE_ANCHOR_DATA_COUNT THEN <<>>
  ELSE (IF U32Less(now, entries[i].endOfLife)
        THEN <<[id |-> entries[i].id, seqNr |-> entries[i].seqNr]>>
        ELSE <<>>) \o RemoteSeqNrListFrom(entries, now, i + 1)

tdoaStorageGetRemoteSeqNrList(anchorStorage, anchorCtx) ==
  RemoteSeqNrListFrom(anchorStorage[anchorCtx.anchorInfo].remoteAnchorData,
                      anchorCtx.currentTime_ms, 0)

tdoaStorageGetRemoteTimeOfFlight(anchorStorage, anchorCtx, otherAnchor) ==
  LET entries == anchorStorage[anchorCtx.anchorInfo].remoteTof
      i == FirstEntryWithId(entries, TOF_PER_ANCHOR_COUNT, otherAnchor, 0)
  IN  IF i # NoSlot /\ U32Less(anchorCtx.currentTime_ms, entries[i].endOfLife)
      THEN entries[i].tof
      ELSE 0

tdoaStorageSetRemoteTimeOfFlight(anchorStorage, anchorCtx, remoteAnchor, tof) ==
  LET entries == anchorStorage[anchorCtx.anchorInfo].remoteTof
      indexToUpdate == IndexToUpdate(entries, TOF_PER_ANCHOR_COUNT, remoteAnchor, 0, NoOldestTime, 0)
  IN  [anchorStorage EXCEPT ![anchorCtx.anchorInfo].remoteTof[indexToUpdate] =
         [id |-> remoteAnchor, tof |-> tof,
          endOfLife |-> U32Add(anchorCtx.currentTime_ms, TOF_VALIDITY_PERIOD)]]

-----------------------------------------------------------------------------
(* tdoaEngine.c.  The statistics are not part of the model.                *)

\* The digits of a tick count below 2^35 in base 10^4, least significant
\* first (2^20 = 104 * 10^4 + 8576).
Base10k(t) ==
  LET s0 == t[1] * 8576 + t[2]
      s1 == t[1] * 104 + (s0 \div 10000)
  IN  <<s0 % 10000, s1 % 10000, s1 \div 10000>>

\* The digits of a clock correction m >= 0 in base 10^4.
CorrectionDigits(m) == <<m % 10000, (m \div 10000) % 10000, m \div 100000000>>

\* ticks * m / 10^9 for m >= 0: its integer part as a tick count and whether
\* the quotient is that integer exactly.  Schoolbook product of the digits,
\* then the division by 10^9 = 10^8 * 10.
TicksTimesCorrection(ticks, m) ==
  LET d == Base10k(ticks)
      c == CorrectionDigits(m)
      t0 == d[1] * c[1]
      t1 == d[1] * c[2] + d[2] * c[1] + (t0 \div 10000)
      t2 == d[1] * c[3] + d[2] * c[2] + d[3] * c[1] + (t1 \div 10000)
      t3 == d[2] * c[3] + d[3] * c[2] + (t2 \div 10000)
      t4 == d[3] * c[3] + (t3 \div 10000)
      h3 == t4 \div 10000
      h2 == t4 % 10000
      h1 == t3 % 10000
      h0 == t2 % 10000
      q3 == h3 \div 10
      cur2 == (h3 % 10) * 10000 + h2
      q2 == cur2 \div 10
      cur1 == (cur2 % 10) * 10000 + h1
      q1 == cur1 \div 10
      cur0 == (cur1 % 10) * 10000 + h0
      q0 == cur0 \div 10
      low == q3 * 331776 + q2 * 385280 + q1 * 10000 + q0
  IN  [whole |-> <<q3 * 953674 + q2 * 95 + (low \div LimbBase), low % LimbBase>>,
       exact |-> (cur0 % 10 = 0) /\ (t1 % 10000 = 0) /\ (t0 % 10000 = 0)]

\* x + n for a signed tick count x (the high limb carries the sign) and an
\* integer n.
SignedAddInt(x, n) ==
  LET lo == x[2] + n
  IN  <<x[1] + (lo \div LimbBase), lo % LimbBase>>

\* The conversion towards zero of a difference whose floor is w: exact says
\* that the difference is w itself, subtracted that it is a - product rather
\* than a + product.
TowardsZero(w, exact, subtracted) ==
  IF exact THEN w
  ELSE IF subtracted
       THEN (IF w[1] > 0 \/ (w[1] = 0 /\ w[2] > 0) THEN SignedAddInt(w, 0 - 1) ELSE w)
       ELSE (IF w[1] < 0 THEN SignedAddInt(w, 1) ELSE w)

\* a less the product p of d and a clock correction, p as TicksTimesCorrection
\* gives it for the magnitude of the correction.
DifferenceWithProduct(a, p, clockCorrection) ==
  TowardsZero(IF clockCorrection < 0 THEN TsAddRaw(a, p.whole) ELSE TsSubRaw(a, p.whole),
              p.exact, clockCorrection >= 0)

\* (int64_t)(a - d * clockCorrection): the difference is formed in double and
\* converted towards zero.
Int64OfDifference(a, d, clockCorrection) ==
  DifferenceWithProduct(a,
                        TicksTimesCorrection(d, IF clockCorrection < 0 THEN 0 - clockCorrection
                                                ELSE clockCorrection),
                        clockCorrection)

\* No measurement.
NoMeasurement == [anchorIds |-> <<>>, anchorPositions |-> <<>>, tdoa |-> TsZero]

\* Whether sendTdoaToEstimator is called, and with what: the distance
\* difference is SPEED_OF_LIGHT * tdoa / locodeckTsFreq, kept here in ticks.
enqueueTDOA(anchorStorage, anchorACtx, anchorBCtx, tdoa) ==
  LET a == tdoaStorageGetAnchorPosition(anchorStorage, anchorACtx)
      b == tdoaStorageGetAnchorPosition(anchorStorage, anchorBCtx)
  IN  IF a.result /\ b.result
      THEN [sent |-> TRUE,
            tdoaMeasurement |->
              [anchorIds |-> <<tdoaStorageGetId(anchorStorage, anchorACtx),
                               tdoaStorageGetId(anchorStorage, anchorBCtx)>>,
               anchorPositions |-> <<a.position, b.position>>,
               tdoa |-> tdoa]]
      ELSE [sent |-> FALSE, tdoaMeasurement |-> NoMeasurement]

\* An update that does not look whether the record holds the times of a
\* packet.
UpdateClockCorrectionUnguarded(anchorStorage, anchorCtx, txAn_in_cl_An, rxAn_by_T_in_cl_T) ==
  LET clockCorrectionCandidate ==
        clockCorrectionEngineCalculate(rxAn_by_T_in_cl_T,
                                       tdoaStorageGetRxTime(anchorStorage, anchorCtx),
                                       txAn_in_cl_An,
                                       tdoaStorageGetTxTime(anchorStorage, anchorCtx),
                                       TDOA_ENGINE_TRUNCATE_TO_ANCHOR_TS_BITMAP)
      u == clockCorrectionEngineUpdate(
             tdoaStorageGetClockCorrectionStorage(anchorStorage, anchorCtx),
             clockCorrectionCandidate)
  IN  [anchorStorage |->
         [anchorStorage EXCEPT ![anchorCtx.anchorInfo].clockCorrectionStorage = u.storage],
       sampleIsReliable |-> u.result,
       updated |-> TRUE,
       clockCorrectionCandidate |-> clockCorrectionCandidate]

\* An update that takes the times of the new packet for the stored ones, as
\* if they had been stored before it.
UpdateClockCorrectionAfterStore(anchorStorage, anchorCtx, txAn_in_cl_An, rxAn_by_T_in_cl_T) ==
  IF tdoaStorageGetRxTime(anchorStorage, anchorCtx) # TsZero
       /\ tdoaStorageGetTxTime(anchorStorage, anchorCtx) # TsZero
  THEN LET clockCorrectionCandidate ==
             clockCorrectionEngineCalculate(rxAn_by_T_in_cl_T, rxAn_by_T_in_cl_T,
                                            txAn_in_cl_An, txAn_in_cl_An,
                                            TDOA_ENGINE_TRUNCATE_TO_ANCHOR_TS_BITMAP)
           u == clockCorrectionEngineUpdate(
                  tdoaStorageGetClockCorrectionStorage(anchorStorage, anchorCtx),
                  clockCorrectionCandidate)
       IN  [anchorStorage |->
              [anchorStorage EXCEPT ![anchorCtx.anchorInfo].clockCorrectionStorage = u.storage],
            sampleIsReliable |-> u.result,
            updated |-> TRUE,
            clockCorrectionCandidate |-> clockCorrectionCandidate]
  ELSE [anchorStorage |-> anchorStorage, sampleIsReliable |-> FALSE,
        updated |-> FALSE, clockCorrectionCandidate |-> 0]

\* The storage afterwards, sampleIsReliable, and whether and with which
\* candidate clockCorrectionEngineUpdate was called.
updateClockCorrection(anchorStorage, anchorCtx, txAn_in_cl_An, rxAn_by_T_in_cl_T) ==
  LET latest_rxAn_by_T_in_cl_T == tdoaStorageGetRxTime(anchorStorage, anchorCtx)
      latest_txAn_in_cl_An == tdoaStorageGetTxTime(anchorStorage, anchorCtx)
  IN  IF latest_rxAn_by_T_in_cl_T # TsZero /\ latest_txAn_in_cl_An # TsZero
      THEN LET clockCorrectionCandidate ==
                 clockCorrectionEngineCalculate(rxAn_by_T_in_cl_T, latest_rxAn_by_T_in_cl_T,
                                                txAn_in_cl_An, latest_txAn_in_cl_An,
                                                TDOA_ENGINE_TRUNCATE_TO_ANCHOR_TS_BITMAP)
               u == clockCorrectionEngineUpdate(
                      tdoaStorageGetClockCorrectionStorage(anchorStorage, anchorCtx),
                      clockCorrectionCandidate)
           IN  [anchorStorage |->
                  [anchorStorage EXCEPT ![anchorCtx.anchorInfo].clockCorrectionStorage = u.storage],
                sampleIsReliable |-> u.result,
                updated |-> TRUE,
                clockCorrectionCandidate |-> clockCorrectionCandidate]
      ELSE [anchorStorage |-> anchorStorage, sampleIsReliable |-> FALSE,
            updated |-> FALSE, clockCorrectionCandidate |-> 0]

\* A calcTDoA that takes the peer's data for the anchor's and the anchor's for
\* the peer's.
CalcTDoASwapped(anchorStorage, otherAnchorCtx, anchorCtx, txAn_in_cl_An, rxAn_by_T_in_cl_T) ==
  LET anchorId == tdoaStorageGetId(anchorStorage, anchorCtx)
      tof == tdoaStorageGetRemoteTimeOfFlight(anchorStorage, otherAnchorCtx, anchorId)
      rxAn_by_Ar == tdoaStorageGetRemoteRxTime(anchorStorage, otherAnchorCtx, anchorId)
      clockCorrection == tdoaStorageGetClockCorrection(anchorStorage, otherAnchorCtx)
      rxAn_by_T == tdoaStorageGetRxTime(anchorStorage, anchorCtx)
      delta == TsAddRaw(TsOfInt(tof),
                        tdoaEngineTruncateToAnchorTimeStamp(TsSub64(txAn_in_cl_An, rxAn_by_Ar)))
  IN  Int64OfDifference(
        tdoaEngineTruncateToAnchorTimeStamp(TsSub64(rxAn_by_T_in_cl_T, rxAn_by_T)),
        delta, clockCorrection)

calcTDoA(anchorStorage, otherAnchorCtx, anchorCtx, txAn_in_cl_An, rxAn_by_T_in_cl_T) ==
  LET otherAnchorId == tdoaStorageGetId(anchorStorage, otherAnchorCtx)
      tof_Ar_to_An_in_cl_An ==
        tdoaStorageGetRemoteTimeOfFlight(anchorStorage, anchorCtx, otherAnchorId)
      rxAr_by_An_in_cl_An == tdoaStorageGetRemoteRxTime(anchorStorage, anchorCtx, otherAnchorId)
      clockCorrection == tdoaStorageGetClockCorrection(anchorStorage, anchorCtx)
      rxAr_by_T_in_cl_T == tdoaStorageGetRxTime(anchorStorage, otherAnchorCtx)
      delta_txAr_to_txAn_in_cl_An ==
        TsAddRaw(TsOfInt(tof_Ar_to_An_in_cl_An),
                 tdoaEngineTruncateToAnchorTimeStamp(TsSub64(txAn_in_cl_An, rxAr_by_An_in_cl_An)))
  IN  Int64OfDifference(
        tdoaEngineTruncateToAnchorTimeStamp(TsSub64(rxAn_by_T_in_cl_T, rxAr_by_T_in_cl_T)),
        delta_txAr_to_txAn_in_cl_An, clockCorrection)

\* calcDistanceDiff scales the ticks by SPEED_OF_LIGHT / locodeckTsFreq.
calcDistanceDiff(anchorStorage, otherAnchorCtx, anchorCtx, txAn_in_cl_An, rxAn_by_T_in_cl_T) ==
  calcTDoA(anchorStorage, otherAnchorCtx, anchorCtx, txAn_in_cl_An, rxAn_by_T_in_cl_T)

NoAnchorCtx(currentTime_ms) == [anchorInfo |-> NoSlot, currentTime_ms |-> currentTime_ms]

\* The loop of matchRandomAnchor from i on; list holds matching.id and
\* matching.seqNr, end is remoteCount + matching.offset.  The body takes
\* i % remoteCount first: with remoteCount = 0 that is undefined, the scan
\* is marked with moduloByZero and nothing is said of what follows.
RECURSIVE RandomScan(_, _, _, _, _, _, _)
RandomScan(anchorStorage, anchorCtx, list, i, end, doExcludeId, excludedId) ==
  IF i >= end
  THEN [anchorStorage |-> anchorStorage, result |-> FALSE,
        otherAnchorCtx |-> NoAnchorCtx(anchorCtx.currentTime_ms), moduloByZero |-> FALSE]
  ELSE IF Len(list) = 0
  THEN [anchorStorage |-> anchorStorage, result |-> FALSE,
        otherAnchorCtx |-> NoAnchorCtx(anchorCtx.currentTime_ms), moduloByZero |-> TRUE]
  ELSE LET index == (i % Len(list)) % 256
           candidateAnchorId == list[index + 1].id
       IN  IF ~doExcludeId \/ excludedId # candidateAnchorId
           THEN LET g == tdoaStorageGetCreateAnchorCtx(anchorStorage, candidateAnchorId,
                                                       anchorCtx.currentTime_ms)
                IN  IF /\ g.result
                       /\ list[index + 1].seqNr = tdoaStorageGetSeqNr(g.anchorStorage, g.anchorCtx)
                       /\ tdoaStorageGetRemoteTimeOfFlight(g.anchorStorage, anchorCtx,
                                                           candidateAnchorId) # 0
                    THEN [anchorStorage |-> g.anchorStorage, result |-> TRUE,
                          otherAnchorCtx |-> g.anchorCtx, moduloByZero |-> FALSE]
                    ELSE RandomScan(g.anchorStorage, anchorCtx, list, i + 1, end,
                                    doExcludeId, excludedId)
           ELSE RandomScan(anchorStorage, anchorCtx, list, i + 1, end, doExcludeId, excludedId)

\* A random matching that moves matching.offset on and starts at the head of
\* the list all the same.
MatchRandomFromHead(anchorStorage, offset, anchorCtx, doExcludeId, excludedId) ==
  LET list == tdoaStorageGetRemoteSeqNrList(anchorStorage, anchorCtx)
      r == RandomScan(anchorStorage, anchorCtx, list, 0, Len(list), doExcludeId, excludedId)
  IN  [anchorStorage |-> r.anchorStorage, offset |-> (offset + 1) % 256, result |-> r.result,
       otherAnchorCtx |-> r.otherAnchorCtx, moduloByZero |-> r.moduloByZero]

\* A random matching whose scan goes through its body at least once.
MatchRandomAtLeastOnce(anchorStorage, offset, anchorCtx, doExcludeId, excludedId) ==
  LET newOffset == (offset + 1) % 256
      list == tdoaStorageGetRemoteSeqNrList(anchorStorage, anchorCtx)
      r == RandomScan(anchorStorage, anchorCtx, list, newOffset,
                      (IF Len(list) = 0 THEN 1 ELSE Len(list)) + newOffset,
                      doExcludeId, excludedId)
  IN  [anchorStorage |-> r.anchorStorage, offset |-> newOffset, result |-> r.result,
       otherAnchorCtx |-> r.otherAnchorCtx, moduloByZero |-> r.moduloByZero]

\* The storage and matching.offset afterwards, the value returned, the peer,
\* and whether a remainder by 0 was taken.
matchRandomAnchor(anchorStorage, offset, anchorCtx, doExcludeId, excludedId) ==
  LET newOffset == (offset + 1) % 256
      list == tdoaStorageGetRemoteSeqNrList(anchorStorage, anchorCtx)
      r == RandomScan(anchorStorage, anchorCtx, list, newOffset, Len(list) + newOffset,
                      doExcludeId, excludedId)
  IN  [anchorStorage |-> r.anchorStorage, offset |-> newOffset, result |-> r.result,
       otherAnchorCtx |-> r.otherAnchorCtx, moduloByZero |-> r.moduloByZero]

\* The loop of matchYoungestAnchor from index on.
RECURSIVE YoungestScan(_, _, _, _, _, _, _, _)
YoungestScan(anchorStorage, anchorCtx, list, index, doExcludeId, excludedId, youmgestUpdateTime, bestId) ==
  IF index = Len(list)
  THEN [anchorStorage |-> anchorStorage, bestId |-> bestId]
  ELSE LET candidateAnchorId == list[index + 1].id
       IN  IF /\ (~doExcludeId \/ excludedId # candidateAnchorId)
              /\ tdoaStorageGetRemoteTimeOfFlight(anchorStorage, anchorCtx, candidateAnchorId) # 0
           THEN LET g == tdoaStorageGetCreateAnchorCtx(anchorStorage, candidateAnchorId,
                                                       anchorCtx.currentTime_ms)
                    updateTime == tdoaStorageGetLastUpdateTime(g.anchorStorage, g.anchorCtx)
                    better == /\ g.result
                              /\ U32Less(youmgestUpdateTime, updateTime)
                              /\ list[index + 1].seqNr =
                                   tdoaStorageGetSeqNr(g.anchorStorage, g.anchorCtx)
                IN  YoungestScan(g.anchorStorage, anchorCtx, list, index + 1, doExcludeId,
                                 excludedId,
                                 IF better THEN updateTime ELSE youmgestUpdateTime,
                                 IF better THEN candidateAnchorId ELSE bestId)
           ELSE YoungestScan(anchorStorage, anchorCtx, list, index + 1, doExcludeId,
                             excludedId, youmgestUpdateTime, bestId)

matchYoungestAnchor(anchorStorage, offset, anchorCtx, doExcludeId, excludedId) ==
  LET list == tdoaStorageGetRemoteSeqNrList(anchorStorage, anchorCtx)
      s == YoungestScan(anchorStorage, anchorCtx, list, 0, doExcludeId, excludedId, 0, NoSlot)
  IN  IF s.bestId >= 0
      THEN LET g == tdoaStorageGetCreateAnchorCtx(s.anchorStorage, s.bestId,
                                                  anchorCtx.currentTime_ms)
           IN  [anchorStorage |-> g.anchorStorage, offset |-> offset, result |-> TRUE,
                otherAnchorCtx |-> g.anchorCtx, moduloByZero |-> FALSE]
      ELSE [anchorStorage |-> s.anchorStorage, offset |-> offset, result |-> FALSE,
            otherAnchorCtx |-> NoAnchorCtx(anchorCtx.currentTime_ms), moduloByZero |-> FALSE]

\* A selection that excludes no id.
FindAnchorExcludingNone(anchorStorage, offset, algorithm, anchorCtx, doExcludeId, excludedId) ==
  IF tdoaStorageGetClockCorrection(anchorStorage, anchorCtx) > 0
  THEN IF algorithm = "TdoaEngineMatchingAlgorithmRandom"
       THEN matchRandomAnchor(anchorStorage, offset, anchorCtx, FALSE, 0)
       ELSE matchYoungestAnchor(anchorStorage, offset, anchorCtx, FALSE, 0)
  ELSE [anchorStorage |-> anchorStorage, offset |-> offset, result |-> FALSE,
        otherAnchorCtx |-> NoAnchorCtx(anchorCtx.currentTime_ms), moduloByZero |-> FALSE]

findSuitableAnchor(anchorStorage, offset, matchingAlgorithm, anchorCtx, doExcludeId, excludedId) ==
  IF tdoaStorageGetClockCorrection(anchorStorage, anchorCtx) > 0
  THEN CASE matchingAlgorithm = "TdoaEngineMatchingAlgorithmRandom" ->
              matchRandomAnchor(anchorStorage, offset, anchorCtx, doExcludeId, excludedId)
         [] matchingAlgorithm = "TdoaEngineMatchingAlgorithmYoungest" ->
              matchYoungestAnchor(anchorStorage, offset, anchorCtx, doExcludeId, excludedId)
         [] OTHER ->
              [anchorStorage |-> anchorStorage, offset |-> offset, result |-> FALSE,
               otherAnchorCtx |-> NoAnchorCtx(anchorCtx.currentTime_ms), moduloByZero |-> FALSE]
  ELSE [anchorStorage |-> anchorStorage, offset |-> offset, result |-> FALSE,
        otherAnchorCtx |-> NoAnchorCtx(anchorCtx.currentTime_ms), moduloByZero |-> FALSE]

tdoaEngineGetAnchorCtxForPacketProcessing(anchorStorage, anchorId, currentTime_ms) ==
  tdoaStorageGetCreateAnchorCtx(anchorStorage, anchorId, currentTime_ms)

\* What tdoaEngineProcessPacketFiltered leaves behind once it has looked for a
\* peer: u is what updateClockCorrection gave, f what findSuitableAnchor gave,
\* e what the estimator callback got.
ProcessPacketOutcome(u, f, e) ==
  [anchorStorage |-> f.anchorStorage, offset |-> f.offset,
   timeIsGood |-> u.sampleIsReliable, updated |-> u.updated,
   clockCorrectionCandidate |-> u.clockCorrectionCandidate,
   selectionDone |-> TRUE, suitableDataFound |-> f.result,
   sent |-> e.sent, tdoaMeasurement |-> e.tdoaMeasurement]

\* The measurement of tdoaEngineProcessPacketFiltered for the peer f found.
ProcessPacketWithPeer(u, f, anchorCtx, txAn_in_cl_An, rxAn_by_T_in_cl_T) ==
  ProcessPacketOutcome(u, f,
    IF f.result
    THEN enqueueTDOA(f.anchorStorage, f.otherAnchorCtx, anchorCtx,
                     calcDistanceDiff(f.anchorStorage, f.otherAnchorCtx, anchorCtx,
                                      txAn_in_cl_An, rxAn_by_T_in_cl_T))
    ELSE [sent |-> FALSE, tdoaMeasurement |-> NoMeasurement])

\* The peer selection of tdoaEngineProcessPacketFiltered and what follows it.
ProcessPacketSelecting(u, offset, algorithm, anchorCtx, txAn_in_cl_An, rxAn_by_T_in_cl_T, doExcludeId, excludedId) ==
  ProcessPacketWithPeer(u,
                        findSuitableAnchor(u.anchorStorage, offset, algorithm, anchorCtx,
                                           doExcludeId, excludedId),
                        anchorCtx, txAn_in_cl_An, rxAn_by_T_in_cl_T)

\* tdoaEngineProcessPacketFiltered after its call of updateClockCorrection.
ProcessPacketUpdated(u, offset, algorithm, anchorCtx, txAn_in_cl_An, rxAn_by_T_in_cl_T, doExcludeId, excludedId) ==
  IF u.sampleIsReliable
  THEN ProcessPacketSelecting(u, offset, algorithm, anchorCtx, txAn_in_cl_An,
                              rxAn_by_T_in_cl_T, doExcludeId, excludedId)
  ELSE [anchorStorage |-> u.anchorStorage, offset |-> offset,
        timeIsGood |-> FALSE, updated |-> u.updated,
        clockCorrectionCandidate |-> u.clockCorrectionCandidate,
        selectionDone |-> FALSE, suitableDataFound |-> FALSE,
        sent |-> FALSE, tdoaMeasurement |-> NoMeasurement]

\* A processing that goes on to the peer selection whatever the clock update said.
ProcessPacketIgnoringReliability(anchorStorage, offset, algorithm, anchorCtx, txAn_in_cl_An, rxAn_by_T_in_cl_T, doExcludeId, excludedId) ==
  ProcessPacketSelecting(
    updateClockCorrection(anchorStorage, anchorCtx, txAn_in_cl_An, rxAn_by_T_in_cl_T),
    offset, algorithm, anchorCtx, txAn_in_cl_An, rxAn_by_T_in_cl_T, doExcludeId, excludedId)

\* The storage and matching.offset afterwards, timeIsGood, what the estimator
\* callback got, and which of the steps were taken.
tdoaEngineProcessPacketFiltered(anchorStorage, offset, algorithm, anchorCtx, txAn_in_cl_An, rxAn_by_T_in_cl_T, doExcludeId, excludedId) ==
  ProcessPacketUpdated(
    updateClockCorrection(anchorStorage, anchorCtx, txAn_in_cl_An, rxAn_by_T_in_cl_T),
    offset, algorithm, anchorCtx, txAn_in_cl_An, rxAn_by_T_in_cl_T, doExcludeId, excludedId)

tdoaEngineProcessPacket(anchorStorage, offset, matchingAlgorithm, anchorCtx, txAn_in_cl_An, rxAn_by_T_in_cl_T) ==
  tdoaEngineProcessPacketFiltered(anchorStorage, offset, matchingAlgorithm, anchorCtx,
                                  txAn_in_cl_An, rxAn_by_T_in_cl_T, FALSE, 0)

-----------------------------------------------------------------------------
(* lpsTdoa2Tag.c.  A packet is the rangePacket2_t of the payload with the   *)
(* sender's id (the low byte of the source address) and the LPP data that  *)
(* follows it.  The transmission of a pending LPP packet reads and writes  *)
(* only the LPP variables of the driver: PacketReceived is the ranging     *)
(* path with an empty LPP queue, OnPacketReceived below the whole onEvent. *)

\* The engine is initialized with the youngest-anchor matching.
matchingAlgorithm == "TdoaEngineMatchingAlgorithmYoungest"

Anchors == 0..(LOCODECK_NR_OF_TDOA2_ANCHORS - 1)

isValidTimeStamp(anchorRxTime) == anchorRxTime # TsZero

\* A loop that stores the time stamp and the distance of every other anchor,
\* zero or not.
RECURSIVE UpdateRemoteDataUnchecked(_, _, _, _)
UpdateRemoteDataUnchecked(anchorStorage, anchorCtx, packet, i) ==
  IF i = LOCODECK_NR_OF_TDOA2_ANCHORS THEN anchorStorage
  ELSE IF tdoaStorageGetId(anchorStorage, anchorCtx) # i
       THEN UpdateRemoteDataUnchecked(
              tdoaStorageSetRemoteTimeOfFlight(
                tdoaStorageSetRemoteRxTime(anchorStorage, anchorCtx, i, packet.timestamps[i],
                                           packet.sequenceNrs[i] % 128),
                anchorCtx, i, packet.distances[i]),
              anchorCtx, packet, i + 1)
       ELSE UpdateRemoteDataUnchecked(anchorStorage, anchorCtx, packet, i + 1)

\* The loop of updateRemoteData from i on.
RECURSIVE UpdateRemoteDataFrom(_, _, _, _)
UpdateRemoteDataFrom(anchorStorage, anchorCtx, packet, i) ==
  IF i = LOCODECK_NR_OF_TDOA2_ANCHORS THEN anchorStorage
  ELSE IF tdoaStorageGetId(anchorStorage, anchorCtx) # i
       THEN LET remoteId == i
                remoteRxTime == packet.timestamps[i]
                remoteSeqNr == packet.sequenceNrs[i] % 128
                s1 == IF isValidTimeStamp(remoteRxTime)
                      THEN tdoaStorageSetRemoteRxTime(anchorStorage, anchorCtx, remoteId,
                                                      remoteRxTime, remoteSeqNr)
                      ELSE anchorStorage
                hasDistance == packet.distances[i] # 0
                tof == packet.distances[i]
                s2 == IF hasDistance /\ isValidTimeStamp(TsOfInt(tof))
                      THEN tdoaStorageSetRemoteTimeOfFlight(s1, anchorCtx, remoteId, tof)
                      ELSE s1
            IN  UpdateRemoteDataFrom(s2, anchorCtx, packet, i + 1)
       ELSE UpdateRemoteDataFrom(anchorStorage, anchorCtx, packet, i + 1)

updateRemoteData(anchorStorage, anchorCtx, packet) ==
  UpdateRemoteDataFrom(anchorStorage, anchorCtx, packet, 0)

lpsHandleLppShortPacket(anchorStorage, srcId, packet, anchorCtx) ==
  IF packet.lppType = "LPP_SHORT_ANCHORPOS" /\ srcId < LOCODECK_NR_OF_TDOA2_ANCHORS
  THEN tdoaStorageSetAnchorPosition(anchorStorage, anchorCtx, packet.lppX)
  ELSE anchorStorage

\* The source address of a packet from an anchor id below the anchor count is
\* one of options->anchorAddress.
handleLppPacket(anchorStorage, packet, anchorCtx) ==
  IF packet.lppType # "none" /\ packet.sourceAnchor \in Anchors
  THEN lpsHandleLppShortPacket(anchorStorage, packet.sourceAnchor, packet, anchorCtx)
  ELSE anchorStorage

\* rxcallback after the engine has processed the packet and given p: the
\* times of the packet are stored, then its LPP data handled.
RangingDone(packet, anchorCtx, before, p, rxAn_by_T_in_cl_T, txAn_in_cl_An, seqNr) ==
  [anchorStorage |->
     handleLppPacket(tdoaStorageSetRxTxData(p.anchorStorage, anchorCtx, rxAn_by_T_in_cl_T,
                                            txAn_in_cl_An, seqNr),
                     packet, anchorCtx),
   offset |-> p.offset, previousAnchor |-> packet.sourceAnchor,
   rangingOk |-> TRUE, processed |-> TRUE, anchorCtx |-> anchorCtx,
   before |-> before, engine |-> p]

\* A packet of an anchor, whatever its type.
IsPacketOfAnchor(packet) == packet.sourceAnchor < LOCODECK_NR_OF_TDOA2_ANCHORS

\* The two conditions of rxcallback on a packet: its type, and its sender.
IsRangingPacket(packet) ==
  packet.type = "PACKET_TYPE_TDOA2" /\ packet.sourceAnchor < LOCODECK_NR_OF_TDOA2_ANCHORS

NothingProcessed ==
  [timeIsGood |-> FALSE, updated |-> FALSE, clockCorrectionCandidate |-> 0,
   selectionDone |-> FALSE, suitableDataFound |-> FALSE, sent |-> FALSE,
   tdoaMeasurement |-> NoMeasurement]

\* A packet that is not processed, but sets rangingOk.
RxIgnoredSettingRangingOk(anchorStorage, offset, prevAnchor, ranging, now) ==
  [anchorStorage |-> anchorStorage, offset |-> offset, previousAnchor |-> prevAnchor,
   rangingOk |-> TRUE, processed |-> FALSE, anchorCtx |-> NoAnchorCtx(now),
   before |-> AnchorInfoZero, engine |-> NothingProcessed]

\* rxcallback on a packet of another type or of an unknown sender.
RxIgnored(anchorStorage, offset, prevAnchor, ranging, now) ==
  [anchorStorage |-> anchorStorage, offset |-> offset, previousAnchor |-> prevAnchor,
   rangingOk |-> ranging, processed |-> FALSE, anchorCtx |-> NoAnchorCtx(now),
   before |-> AnchorInfoZero, engine |-> NothingProcessed]

\* What the ranging path of rxcallback leaves behind, and what the engine did.
rxcallback(anchorStorage, offset, prevAnchor, ranging, packet, arrival, now) ==
  IF IsRangingPacket(packet)
  THEN LET anchor == packet.sourceAnchor
           rxAn_by_T_in_cl_T == arrival
           txAn_in_cl_An == packet.timestamps[anchor]
           seqNr == packet.sequenceNrs[anchor] % 128
           g == tdoaEngineGetAnchorCtxForPacketProcessing(anchorStorage, anchor, now)
           s1 == updateRemoteData(g.anchorStorage, g.anchorCtx, packet)
       IN  RangingDone(packet, g.anchorCtx, s1[g.anchorCtx.anchorInfo],
                       tdoaEngineProcessPacket(s1, offset, matchingAlgorithm, g.anchorCtx,
                                               txAn_in_cl_An, rxAn_by_T_in_cl_T),
                       rxAn_by_T_in_cl_T, txAn_in_cl_An, seqNr)
  ELSE RxIgnored(anchorStorage, offset, prevAnchor, ranging, now)

-----------------------------------------------------------------------------
(* The radio.  The tag's clock runs at 2^26 ticks per millisecond; anchor   *)
(* i sends 32-bit time stamps of a clock that started at another value and *)
(* gains DriftTicks * i ticks per millisecond on the tag's.  An anchor     *)
(* reports the other anchors as of the last packet the tag has from each.  *)
(* Packets follow each other by 10 ms, by 2 s or by 2^31 ms + 2 s; over    *)
(* the two long gaps the 32-bit time stamps have wrapped.                  *)

MaxPackets == 4
LongGap == Int32Min + 2000
TimeSteps == {10, 2000, LongGap}
TofTicks == 1000
DriftTicks == 10

TagClock(t) == <<(t % 16384) * 64, 1000>>

AnchorClock(anchor, t) ==
  TsAnd(TsAddRaw(TsAddRaw(<<(t % 64) * 64, 0>>, TsOfInt(2000 + 777 * anchor)),
                 U32TimesSmall(t, DriftTicks * anchor)),
        <<4095, 1048575>>)

\* The anchors the tag can hear; the others are known from reports only.
MaxSender == 1
Senders == 0..MaxSender

\* How long after the last packet, and with what transmit time stamp: the
\* anchor's clock or the stamp of its last packet.
Timings ==
  [dt : {10}, tx : {"clock", "repeat"}] \cup [dt : TimeSteps \ {10}, tx : {"clock"}]

\* What a packet says of the other anchors, and whether it carries the
\* position of its sender.
Reports ==
  { [remote |-> "none", lpp |-> TRUE], [remote |-> "fresh", lpp |-> TRUE],
    [remote |-> "fresh", lpp |-> FALSE] }

PacketInputs ==
  { [anchor |-> a, dt |-> t.dt, tx |-> t.tx, remote |-> p.remote, lpp |-> p.lpp] :
      a \in Senders, t \in Timings, p \in Reports }

\* The lowest and the highest of the anchors other than anchor: a packet with
\* a mixed report has a time stamp of the first only and a distance to the
\* last only.
FirstOther(anchor) == CHOOSE i \in Anchors \ {anchor} : \A j \in Anchors \ {anchor} : i <= j
LastOther(anchor) == CHOOSE i \in Anchors \ {anchor} : \A j \in Anchors \ {anchor} : i >= j

\* The packet of an input at time now, given what the tag has stored.
PacketOf(anchorStorage, in, now) ==
  LET Known(i) == tdoaStorageGetAnchorCtx(anchorStorage, i, now)
      Stored(i) == anchorStorage[Known(i).anchorCtx.anchorInfo]
      clock == AnchorClock(in.anchor, now)
      ownTx == CASE in.tx = "clock" -> clock
                 [] in.tx = "repeat" ->
                      IF Known(in.anchor).result THEN Stored(in.anchor).txTime ELSE clock
      ownSeq == IF Known(in.anchor).result THEN (Stored(in.anchor).seqNr + 1) % 128 ELSE 1
      Heard(i) == IF Known(i).result THEN Stored(i).lastUpdateTime ELSE 0
      HeardSeq(i) == IF Known(i).result THEN Stored(i).seqNr ELSE 0
  IN  [type |-> "PACKET_TYPE_TDOA2",
       sourceAnchor |-> in.anchor,
       timestamps |->
         [i \in Anchors |->
            IF i = in.anchor THEN ownTx
            ELSE IF in.remote = "none" \/ (in.remote = "mixed" /\ i # FirstOther(in.anchor))
            THEN TsZero
            ELSE TsAnd(TsAddRaw(AnchorClock(in.anchor, Heard(i)), <<0, TofTicks>>),
                       <<4095, 1048575>>)],
       sequenceNrs |->
         [i \in Anchors |->
            IF i = in.anchor THEN 128 + ownSeq
            ELSE HeardSeq(i)],
       distances |->
         [i \in Anchors |->
            IF i = in.anchor \/ in.remote = "none"
                 \/ (in.remote = "mixed" /\ i # LastOther(in.anchor))
            THEN 0 ELSE TofTicks],
       lppType |-> IF in.lpp THEN "LPP_SHORT_ANCHORPOS" ELSE "none",
       lppX |-> in.anchor + 1]

NoPacketYet ==
  [processed |-> FALSE, anchor |-> 0, anchorCtx |-> NoAnchorCtx(0), now |-> 0,
   txAn_in_cl_An |-> TsZero, rxAn_by_T_in_cl_T |-> TsZero, sequenceNr |-> 0,
   before |-> AnchorInfoZero,
   updated |-> FALSE, clockCorrectionCandidate |-> 0, timeIsGood |-> FALSE,
   selectionDone |-> FALSE, suitableDataFound |-> FALSE, sent |-> FALSE,
   tdoaMeasurement |-> NoMeasurement]

\* The state after Initialize.
\* The engine and the driver before the first packet.
EngineIdle ==
  /\ matchingOffset = 0
  /\ previousAnchor = 0
  /\ rangingOk = FALSE
  /\ now_ms = 0
  /\ packetCount = 0
  /\ last = NoPacketYet
  /\ heard = {}

EngineInit == anchorInfoArray = tdoaStorageInitialize /\ EngineIdle

\* eventPacketReceived with a TDoA2 packet, some time after the last one.
PacketReceived ==
  /\ packetCount < MaxPackets
  /\ \E in \in PacketInputs :
       /\ in.tx = "clock" \/ tdoaStorageIsAnchorInStorage(anchorInfoArray, in.anchor)
       /\ \E now \in {U32Add(now_ms, in.dt)} :
          \E packet \in {PacketOf(anchorInfoArray, in, now)} :
          \E r \in {rxcallback(anchorInfoArray, matchingOffset, previousAnchor, rangingOk,
                                packet, TagClock(now), now)} :
            /\ anchorInfoArray' = r.anchorStorage
            /\ matchingOffset' = r.offset
            /\ previousAnchor' = r.previousAnchor
            /\ rangingOk' = r.rangingOk
            /\ now_ms' = now
            /\ packetCount' = packetCount + 1
            /\ heard' = IF r.processed THEN heard \cup {packet.sourceAnchor} ELSE heard
            /\ last' = [processed |-> r.processed, anchor |-> packet.sourceAnchor,
                        anchorCtx |-> r.anchorCtx, now |-> now,
                        txAn_in_cl_An |-> packet.timestamps[packet.sourceAnchor],
                        rxAn_by_T_in_cl_T |-> TagClock(now),
                        sequenceNr |-> packet.sequenceNrs[packet.sourceAnchor],
                        before |-> r.before,
                        updated |-> r.engine.updated,
                        clockCorrectionCandidate |-> r.engine.clockCorrectionCandidate,
                        timeIsGood |-> r.engine.timeIsGood,
                        selectionDone |-> r.engine.selectionDone,
                        suitableDataFound |-> r.engine.suitableDataFound,
                        sent |-> r.engine.sent,
                        tdoaMeasurement |-> r.engine.tdoaMeasurement]
  /\ UNCHANGED <<ccVars, maskVars, storageVars, driverVars, statsVars>>

-----------------------------------------------------------------------------
(* The driver's events.  onEvent handles a received packet, the three      *)
(* failures of a reception and the end of a transmission; for a received   *)
(* packet it transmits the pending LPP packet or puts the radio back in    *)
(* receive mode, counts the packets that went by without a transmission    *)
(* and reads the next LPP packet from the queue when none is pending.      *)
(* After every event it publishes the bitmap of the anchors whose status   *)
(* has not timed out.  Initialize is called again when the deck restarts   *)
(* the algorithm.                                                          *)

TDOA2_LPP_PACKET_SEND_TIMEOUT == 3

Events ==
  {"eventPacketReceived", "eventPacketSent", "eventTimeout", "eventReceiveFailed",
   "eventReceiveTimeout"}

ReceiveFailures == {"eventTimeout", "eventReceiveFailed", "eventReceiveTimeout"}

\* A bitmap with the bits of every anchor at or below now <= timeout set.
RECURSIVE RangingStateInclusive(_, _, _)
RangingStateInclusive(now, hist, anchor) ==
  IF anchor = LOCODECK_NR_OF_TDOA2_ANCHORS THEN 0
  ELSE (IF ~U32Less(hist[anchor], now) THEN 2 ^ anchor ELSE 0)
         + RangingStateInclusive(now, hist, anchor + 1)

\* The loop of onEvent over the anchors from anchor on: the bits of rangingState.
RECURSIVE RangingStateFrom(_, _, _)
RangingStateFrom(now, hist, anchor) ==
  IF anchor = LOCODECK_NR_OF_TDOA2_ANCHORS THEN 0
  ELSE (IF U32Less(now, hist[anchor]) THEN 2 ^ anchor ELSE 0)
         + RangingStateFrom(now, hist, anchor + 1)

\* A transmission to whichever anchor sent the packet.
LppSentToAnySender(toSend, pending, packet) ==
  packet.type = "PACKET_TYPE_TDOA2" /\ toSend

\* What rxcallback returns: whether it has transmitted the pending LPP packet.
LppSent(toSend, pending, packet) ==
  /\ packet.type = "PACKET_TYPE_TDOA2"
  /\ toSend
  /\ pending.dest = packet.sourceAnchor

\* eventPacketReceived up to the reading of the queue: after a transmission
\* nothing is pending, otherwise the radio receives again and the packet that
\* has waited too long is discarded.
LppAfterPacket(lppSent, toSend, counter) ==
  IF lppSent
  THEN [toSend |-> FALSE, counter |-> counter, radio |-> "transmit"]
  ELSE [toSend |-> toSend /\ ~(counter + 1 >= TDOA2_LPP_PACKET_SEND_TIMEOUT),
        counter |-> counter + 1, radio |-> "receive"]

\* A reading of the queue that leaves the try counter as it is.
LppFetchKeepingCounter(a, pending, next) ==
  IF ~a.toSend
  THEN [toSend |-> next.got, packet |-> IF next.got THEN [dest |-> next.dest] ELSE pending,
        counter |-> a.counter, fetched |-> TRUE]
  ELSE [toSend |-> TRUE, packet |-> pending, counter |-> a.counter, fetched |-> FALSE]

\* The end of eventPacketReceived: with nothing pending, lpsGetLppShort gives
\* the next packet of the queue, if it has one, and the try counter starts
\* again.
LppFetch(a, pending, next) ==
  IF ~a.toSend
  THEN [toSend |-> next.got, packet |-> IF next.got THEN [dest |-> next.dest] ELSE pending,
        counter |-> 0, fetched |-> TRUE]
  ELSE [toSend |-> TRUE, packet |-> pending, counter |-> a.counter, fetched |-> FALSE]

\* The events of a run: at most MaxDriverPackets packets of known anchors
\* are processed, at most MaxLppFetched LPP packets come out of the queue,
\* and an event follows the one before in the same millisecond or 10 ms
\* later, up to MaxDriverTick.
MaxDriverPackets == 2
MaxLppFetched == 2
MaxDriverTick == 20
DriverSteps == {0, 10}
LppDests == {1}

\* A sender that is none of the anchors.
UnknownSender == LOCODECK_NR_OF_TDOA2_ANCHORS

DriverPacketInputs ==
  { [type |-> "PACKET_TYPE_TDOA2", anchor |-> a, remote |-> r] :
      a \in Senders, r \in {"none", "mixed"} }
    \cup { [type |-> "PACKET_TYPE_TDOA2", anchor |-> UnknownSender, remote |-> "none"],
           [type |-> "other", anchor |-> 0, remote |-> "mixed"] }

DriverPacketOf(anchorStorage, in, now) ==
  [PacketOf(anchorStorage,
            [anchor |-> in.anchor, dt |-> 0, tx |-> "clock", remote |-> in.remote, lpp |-> TRUE],
            now)
     EXCEPT !.type = in.type]

\* What lpsGetLppShort can give: nothing, or a packet for an anchor.
LppQueue(log) ==
  {[got |-> FALSE, dest |-> 0]}
    \cup (IF log.fetched < MaxLppFetched THEN {[got |-> TRUE, dest |-> d] : d \in LppDests}
          ELSE {})

NoEventYet ==
  [event |-> "none", now |-> 0, radio |-> "none", processed |-> FALSE, sent |-> FALSE,
   lppSent |-> FALSE, pendingBefore |-> FALSE, destBefore |-> 0, serialBefore |-> 0,
   missed |-> 0,
   pendingAfterRadio |-> FALSE, fetched |-> FALSE, got |-> FALSE,
   rangingOkBefore |-> FALSE, previousAnchorBefore |-> 0,
   before |-> tdoaStorageInitialize, anchorCtx |-> NoAnchorCtx(0),
   packet |-> [type |-> "none", sourceAnchor |-> 0]]

\* No LPP packet has come out of the queue.
NoLppYet == [fetched |-> 0, serial |-> 0, missed |-> 0, stalled |-> 0, transmitted |-> {},
             twice |-> FALSE]

\* The driver's own variables after Initialize at boot.
DriverIdle ==
  /\ lppPacketToSend = FALSE
  /\ lppPacket = [dest |-> 0]
  /\ lppPacketSendTryCounter = 0
  /\ history = [a \in Anchors |-> 0]
  /\ rangingState = 0
  /\ lastEvent = NoEventYet
  /\ lppLog = NoLppYet

StallAfter(log) ==
  IF log.stalled < TDOA2_LPP_PACKET_SEND_TIMEOUT THEN log.stalled + 1 ELSE log.stalled

\* The log after eventPacketReceived.
LppLogAfterPacket(log, lppSent, f) ==
  [fetched |-> IF f.fetched /\ f.toSend THEN log.fetched + 1 ELSE log.fetched,
   serial |-> IF f.fetched THEN (IF f.toSend THEN log.fetched + 1 ELSE 0) ELSE log.serial,
   missed |-> IF f.fetched THEN 0 ELSE log.missed + 1,
   stalled |-> IF f.fetched THEN 0 ELSE StallAfter(log),
   transmitted |-> IF lppSent THEN log.transmitted \cup {log.serial} ELSE log.transmitted,
   twice |-> log.twice \/ (lppSent /\ log.serial \in log.transmitted)]

\* onEvent(eventPacketReceived).
OnPacketReceived ==
  \E in \in DriverPacketInputs, dt \in DriverSteps, next \in LppQueue(lppLog) :
    /\ now_ms + dt <= MaxDriverTick
    /\ \E now \in {U32Add(now_ms, dt)} :
       \E packet \in {DriverPacketOf(anchorInfoArray, in, now)} :
       \E lppSent \in {LppSent(lppPacketToSend, lppPacket, packet)} :
       \E r \in {rxcallback(anchorInfoArray, matchingOffset, previousAnchor, rangingOk,
                             packet, TagClock(now), now)} :
       \E a \in {LppAfterPacket(lppSent, lppPacketToSend, lppPacketSendTryCounter)} :
       \E f \in {LppFetch(a, lppPacket, next)} :
         /\ r.processed => packetCount < MaxDriverPackets
         /\ f.fetched \/ ~next.got
         /\ anchorInfoArray' = r.anchorStorage
         /\ matchingOffset' = r.offset
         /\ previousAnchor' = r.previousAnchor
         /\ rangingOk' = r.rangingOk
         /\ now_ms' = now
         /\ packetCount' = IF r.processed THEN packetCount + 1 ELSE packetCount
         /\ heard' = IF r.processed THEN heard \cup {packet.sourceAnchor} ELSE heard
         /\ lppPacketToSend' = f.toSend
         /\ lppPacket' = f.packet
         /\ lppPacketSendTryCounter' = f.counter
         /\ rangingState' = RangingStateFrom(now, history, 0)
         /\ lppLog' = LppLogAfterPacket(lppLog, lppSent, f)
         /\ lastEvent' =
              [event |-> "eventPacketReceived", now |-> now, radio |-> a.radio,
               processed |-> r.processed, sent |-> r.engine.sent, lppSent |-> lppSent,
               pendingBefore |-> lppPacketToSend, destBefore |-> lppPacket.dest,
               serialBefore |-> lppLog.serial,
               missed |-> IF lppPacketToSend /\ ~lppSent THEN lppLog.missed + 1 ELSE 0,
               pendingAfterRadio |-> a.toSend, fetched |-> f.fetched,
               got |-> f.fetched /\ f.toSend,
               rangingOkBefore |-> rangingOk, previousAnchorBefore |-> previousAnchor,
               before |-> anchorInfoArray, anchorCtx |-> r.anchorCtx,
               packet |-> packet]
  /\ UNCHANGED <<last, history>>
  /\ UNCHANGED <<ccVars, maskVars, storageVars, statsVars>>

\* What an event other than a received packet leaves in lastEvent.
EventDone(event, now, radio) ==
  [NoEventYet EXCEPT !.event = event, !.now = now, !.radio = radio,
                     !.pendingBefore = lppPacketToSend, !.destBefore = lppPacket.dest,
                     !.serialBefore = lppLog.serial,
                     !.pendingAfterRadio = lppPacketToSend,
                     !.rangingOkBefore = rangingOk, !.previousAnchorBefore = previousAnchor,
                     !.before = anchorInfoArray]

\* onEvent(eventTimeout), onEvent(eventReceiveFailed), onEvent(eventReceiveTimeout).
OnReceiveFailure ==
  \E event \in ReceiveFailures, dt \in DriverSteps :
    /\ now_ms + dt <= MaxDriverTick
    /\ \E now \in {U32Add(now_ms, dt)} :
         /\ now_ms' = now
         /\ rangingState' = RangingStateFrom(now, history, 0)
         /\ lastEvent' = EventDone(event, now, "receive")
         /\ lppLog' = IF lppPacketToSend THEN [lppLog EXCEPT !.stalled = StallAfter(lppLog)]
                      ELSE lppLog
    /\ UNCHANGED <<anchorInfoArray, matchingOffset, previousAnchor, rangingOk, packetCount,
                   last, heard, lppPacketToSend, lppPacket, lppPacketSendTryCounter, history>>
    /\ UNCHANGED <<ccVars, maskVars, storageVars, statsVars>>

\* onEvent(eventPacketSent): the radio reports the end of the transmission
\* and receives again by itself.
OnPacketSent ==
  /\ lastEvent.radio = "transmit"
  /\ \E dt \in DriverSteps :
       /\ now_ms + dt <= MaxDriverTick
       /\ \E now \in {U32Add(now_ms, dt)} :
            /\ now_ms' = now
            /\ rangingState' = RangingStateFrom(now, history, 0)
            /\ lastEvent' = EventDone("eventPacketSent", now, "none")
            /\ lppLog' = IF lppPacketToSend THEN [lppLog EXCEPT !.stalled = StallAfter(lppLog)]
                         ELSE lppLog
  /\ UNCHANGED <<anchorInfoArray, matchingOffset, previousAnchor, rangingOk, packetCount,
                 last, heard, lppPacketToSend, lppPacket, lppPacketSendTryCounter, history>>
  /\ UNCHANGED <<ccVars, maskVars, storageVars, statsVars>>

\* Initialize, called again after events.
DriverInitialize ==
  /\ lastEvent.event \in Events
  /\ anchorInfoArray' = tdoaStorageInitialize
  /\ matchingOffset' = 0
  /\ previousAnchor' = 0
  /\ lppPacketToSend' = FALSE
  /\ rangingState' = 0
  /\ rangingOk' = FALSE
  /\ heard' = {}
  /\ lastEvent' = EventDone("init", now_ms, "none")
  /\ lppLog' = [lppLog EXCEPT !.serial = 0, !.missed = 0, !.stalled = 0]
  /\ UNCHANGED <<now_ms, packetCount, last, lppPacket, lppPacketSendTryCounter, history>>
  /\ UNCHANGED <<ccVars, maskVars, storageVars, statsVars>>

-----------------------------------------------------------------------------
(* tdoaStats.c.  The statistics track the clock correction, the time of    *)
(* flight and the TDoA of a focus anchor and a remote focus anchor; the    *)
(* ids asked for (newAnchorId, newRemoteAnchorId) are parameters written   *)
(* from outside, the tracked values are written by the engine for the ids  *)
(* in focus.  The event counters are not part of the model.                *)

STATS_INTERVAL == 500

tdoaStatsInit(now) ==
  [anchorId |-> 0, newAnchorId |-> 0, remoteAnchorId |-> 1, newRemoteAnchorId |-> 1,
   clockCorrection |-> 0, tof |-> 0, tdoa |-> 0,
   nextStatisticsTime |-> U32Add(now, STATS_INTERVAL), previousStatisticsTime |-> 0]

\* The two resets of tdoaStatsUpdate, one after the other.
StatsAnchorChanged(stats) ==
  IF stats.anchorId # stats.newAnchorId
  THEN [stats EXCEPT !.anchorId = stats.newAnchorId,
                     !.clockCorrection = 0, !.tof = 0, !.tdoa = 0]
  ELSE stats

\* A reset for the remote id that clears the clock correction as well.
StatsRemoteChangedAll(stats) ==
  IF stats.remoteAnchorId # stats.newRemoteAnchorId
  THEN [stats EXCEPT !.remoteAnchorId = stats.newRemoteAnchorId,
                     !.clockCorrection = 0, !.tof = 0, !.tdoa = 0]
  ELSE stats

StatsRemoteChanged(stats) ==
  IF stats.remoteAnchorId # stats.newRemoteAnchorId
  THEN [stats EXCEPT !.remoteAnchorId = stats.newRemoteAnchorId, !.tof = 0, !.tdoa = 0]
  ELSE stats

\* now_ms and nextStatisticsTime are compared as uint32_t.
tdoaStatsUpdate(stats, now) ==
  IF U32Less(stats.nextStatisticsTime, now)
  THEN [StatsRemoteChanged(StatsAnchorChanged(stats)) EXCEPT
          !.previousStatisticsTime = now,
          !.nextStatisticsTime = U32Add(now, STATS_INTERVAL)]
  ELSE stats

\* The statistics called on their own: the ids asked for are changed, the
\* engine writes the values of the anchors in focus, or tdoaStatsUpdate is
\* called some time later, up to the wrap of the counter of ms.
MaxStatsCalls == 5
StatsIds == 0..2
StatsSteps == {1, STATS_INTERVAL, Int32Max - 250}
StatsNoCall == [op |-> "none", now |-> 0, before |-> tdoaStatsInit(0)]

StatsIdle == tdoaStats = tdoaStatsInit(0) /\ statsLast = StatsNoCall

StatsDone(op, now, stats) ==
  /\ tdoaStats' = stats
  /\ statsLast' = [op |-> op, now |-> now, before |-> tdoaStats]
  /\ now_ms' = now
  /\ packetCount' = packetCount + 1
  /\ UNCHANGED <<anchorInfoArray, matchingOffset, previousAnchor, rangingOk, last, heard>>
  /\ UNCHANGED <<ccVars, maskVars, storageVars, driverVars>>

\* The parameters newAnchorId and newRemoteAnchorId are written.
StatsFocus ==
  /\ packetCount < MaxStatsCalls
  /\ \E a \in StatsIds : \E r \in StatsIds :
       StatsDone("focus", now_ms,
                 [tdoaStats EXCEPT !.newAnchorId = a, !.newRemoteAnchorId = r])

\* updateClockCorrection and enqueueTDOA for the anchors in focus.
StatsTracked ==
  /\ packetCount < MaxStatsCalls
  /\ StatsDone("track", now_ms,
               [tdoaStats EXCEPT !.clockCorrection = CC_ONE + tdoaStats.anchorId + 1,
                                 !.tof = TofTicks + tdoaStats.remoteAnchorId,
                                 !.tdoa = 1 + tdoaStats.anchorId])

StatsUpdate ==
  /\ packetCount < MaxStatsCalls
  /\ \E dt \in StatsSteps : \E now \in {U32Add(now_ms, dt)} :
       StatsDone("update", now, tdoaStatsUpdate(tdoaStats, now))

-----------------------------------------------------------------------------
(* The masked subtraction on its own: two readings t1, t2 of a 40-bit      *)
(* counter that advanced by d ticks between them.                          *)

MaskT1Values ==
  { <<0, 0>>, <<0, 1000>>, <<0, 500200>>, <<4095, 1048476>>, <<4096, 5>>,
    <<70000, 123>>, <<1048575, 1048476>>, <<1048575, 1048575>> }

MaskElapsedValues ==
  { <<0, 0>>, <<0, 1>>, <<0, 300>>, <<1, 0>>, <<2048, 0>>, <<4095, 1048575>>,
    <<4096, 0>>, <<4096, 300>>, <<524288, 0>>, <<1048575, 1048575>> }

MaskNotApplied == [done |-> FALSE, tdoa |-> TsZero, tick |-> TsZero]

MaskIdle == maskIn = [t1 |-> TsZero, t2 |-> TsZero, d |-> TsZero] /\ maskOut = MaskNotApplied

MaskInit ==
  /\ \E t1 \in MaskT1Values, d \in MaskElapsedValues :
       maskIn = [t1 |-> t1, t2 |-> TsAdd40(t1, d), d |-> d]
  /\ maskOut = MaskNotApplied

\* The subtraction of calcTDoA and the one of clockCorrectionEngineCalculate.
MaskApply ==
  /\ ~maskOut.done
  /\ maskOut' = [done |-> TRUE,
                 tdoa |-> tdoaEngineTruncateToAnchorTimeStamp(TsSub64(maskIn.t2, maskIn.t1)),
                 tick |-> TickCount(maskIn.t2, maskIn.t1, TDOA_ENGINE_TRUNCATE_TO_ANCHOR_TS_BITMAP)]
  /\ UNCHANGED maskIn
  /\ UNCHANGED <<ccVars, engineVars, storageVars, driverVars, statsVars>>

-----------------------------------------------------------------------------
(* The clock-correction module on its own: one clockCorrectionStorage_t,   *)
(* zeroed when its record is created, then updated with candidates.        *)

CcCandidates ==
  { CC_FAILED, 0, 20, CLOCK_CORRECTION_SPEC_MIN, CC_ONE - 10000, CC_ONE - 30,
    CC_ONE - 20, CC_ONE, CC_ONE + 20, CC_ONE + 40, CC_ONE + 10000,
    CLOCK_CORRECTION_SPEC_MAX, CC_ONE + 50000, CC_SAT }

CcNoCall == [op |-> "none", candidate |-> 0, before |-> ClockCorrectionStorageZero, reliable |-> FALSE]

CcIdle ==
  /\ ccStorage = ClockCorrectionStorageZero
  /\ ccLast = CcNoCall
  /\ ccRun = [candidate |-> 0, n |-> 0]
  /\ ccReliableSeen = FALSE

\* The run of consecutive updates with one candidate that began outside the
\* accepted noise of the correction stored then, and within the spec limits.
CcRunAfter(candidate) ==
  IF ccRun.n > 0 /\ ccRun.candidate = candidate
  THEN [ccRun EXCEPT !.n = IF @ <= CLOCK_CORRECTION_BUCKET_MAX + 1 THEN @ + 1 ELSE @]
  ELSE IF ~WithinAcceptedNoise(candidate - ccStorage.clockCorrection) /\ WithinSpec(candidate)
       THEN [candidate |-> candidate, n |-> 1]
       ELSE [candidate |-> candidate, n |-> 0]

CcUpdate ==
  \E candidate \in CcCandidates :
    LET r == clockCorrectionEngineUpdate(ccStorage, candidate)
    IN  /\ ccStorage' = r.storage
        /\ ccLast' = [op |-> "update", candidate |-> candidate, before |-> ccStorage, reliable |-> r.result]
        /\ ccRun' = CcRunAfter(candidate)
        /\ ccReliableSeen' = (ccReliableSeen \/ r.result)
        /\ UNCHANGED <<maskVars, engineVars, storageVars, driverVars, statsVars>>

\* memset(&anchorStorage[slot], 0, ...) of initializeSlot, on this storage.
CcZero ==
  /\ ccStorage' = ClockCorrectionStorageZero
  /\ ccLast' = [CcNoCall EXCEPT !.op = "zero", !.before = ccStorage]
  /\ ccRun' = [candidate |-> 0, n |-> 0]
  /\ ccReliableSeen' = FALSE
  /\ UNCHANGED <<maskVars, engineVars, storageVars, driverVars, statsVars>>

\* A stream of updates with one candidate within the spec limits, on a
\* storage as earlier updates can have left it: zeroed, or with a correction
\* within the spec limits, near the candidate or far from it, and any bucket.
\* ccRun holds the candidate and counts the updates.
StreamCandidates ==
  { CLOCK_CORRECTION_SPEC_MIN + 1, CC_ONE - 10000, CC_ONE, CC_ONE + 20,
    CLOCK_CORRECTION_SPEC_MAX - 1 }

StreamCorrections ==
  { CLOCK_CORRECTION_SPEC_MIN + 30, CC_ONE - 10000, CC_ONE - 29, CC_ONE - 4, CC_ONE,
    CC_ONE + 31, CC_ONE + 49, CLOCK_CORRECTION_SPEC_MAX - 1 }

StreamStorages ==
  {ClockCorrectionStorageZero}
    \cup [clockCorrection : StreamCorrections,
          clockCorrectionBucket : 0..CLOCK_CORRECTION_BUCKET_MAX]

StreamCount == CLOCK_CORRECTION_BUCKET_MAX + 4

StreamInit ==
  /\ ccStorage \in StreamStorages
  /\ ccLast = CcNoCall
  /\ ccRun \in [candidate : StreamCandidates, n : {0}]
  /\ ccReliableSeen = FALSE

\* clockCorrectionEngineUpdate with the candidate of the stream.
StreamUpdate ==
  /\ \E r \in {clockCorrectionEngineUpdate(ccStorage, ccRun.candidate)} :
       /\ ccStorage' = r.storage
       /\ ccLast' = [op |-> "update", candidate |-> ccRun.candidate, before |-> ccStorage,
                     reliable |-> r.result]
       /\ ccReliableSeen' = (ccReliableSeen \/ r.result)
  /\ ccRun' = [ccRun EXCEPT !.n = IF @ < StreamCount THEN @ + 1 ELSE @]
  /\ UNCHANGED <<maskVars, engineVars, storageVars, driverVars, statsVars>>

-----------------------------------------------------------------------------
(* The storage called on its own, as the engine and the driver call it: an *)
(* anchor is registered (its record looked up or created, then updated     *)
(* with the times of a packet), a record is looked up or created without   *)
(* an update (as the peer selection does), a record is given a position,   *)
(* or time passes.  Ids are taken into use in increasing order, the        *)
(* storage comparing ids for equality only.  With each call go the reads   *)
(* of the driver: the position of each id and the list of active ids.      *)

\* How many more ids than slots are in use.
MaxEvictions == 2
StIds == 0..(ANCHOR_STORAGE_COUNT + MaxEvictions - 1)
MaxStCalls == ANCHOR_STORAGE_COUNT + MaxEvictions
StShortStep == 10
\* Just short of a validity period, StShortStep more reaches it.
StLongStep == 1990
StSteps == {StLongStep, LongGap}

\* A time in ms as a number of two limbs.
U32ToTs(t) == IF t >= 0 THEN TsOfInt(t) ELSE TsAddRaw(TsOfInt((t + Int32Max) + 1), <<2048, 0>>)

Never == [set |-> FALSE, at |-> TsZero]
At(t) == [set |-> TRUE, at |-> t]
NoNotes == [updated |-> Never, positioned |-> Never]

\* The ids a call may name: those named before and the least one not yet named.
StIdsInUse == { stOrder[k].id : k \in DOMAIN stOrder }
StIdsToName == { id \in StIds : \A other \in StIds : other < id => other \in StIdsInUse }

\* getAnchorPosition of the driver for anchorId, and what
\* tdoaStorageGetAnchorPosition returned to it.
getAnchorPosition(anchorStorage, anchorId, now) ==
  LET c == tdoaStorageGetAnchorCtx(anchorStorage, anchorId, now)
  IN  IF c.result
      THEN [contextFound |-> TRUE,
            valid |-> tdoaStorageGetAnchorPosition(anchorStorage, c.anchorCtx).result,
            position |-> tdoaStorageGetAnchorPosition(anchorStorage, c.anchorCtx).position]
      ELSE [contextFound |-> FALSE, valid |-> FALSE, position |-> PositionZero]

getActiveAnchorIdList(anchorStorage, maxListSize, now) ==
  tdoaStorageGetListOfActiveAnchorIds(anchorStorage, maxListSize, now)

\* The list sizes the reads ask for.
ListSizes == {1, ANCHOR_STORAGE_COUNT}

StReads(anchorStorage, now) ==
  [position |-> [id \in StIds |-> getAnchorPosition(anchorStorage, id, now)],
   active |-> [m \in ListSizes |-> getActiveAnchorIdList(anchorStorage, m, now)]]

StNoCall ==
  [op |-> "none", id |-> 0, before |-> tdoaStorageInitialize, found |-> FALSE, slot |-> NoSlot,
   call |-> 0, reads |-> StReads(tdoaStorageInitialize, 0)]

StorageIdle ==
  /\ stTime = TsZero
  /\ stNotes = [i \in 0..(ANCHOR_STORAGE_COUNT - 1) |-> NoNotes]
  /\ stOrder = <<>>
  /\ stLast = StNoCall

\* The state after a call at time now that left the storage as after.
StDone(op, id, g, after, now, notes, order) ==
  /\ anchorInfoArray' = after
  /\ now_ms' = now
  /\ stTime' = TsAddRaw(stTime, U32ToTs(U32Sub(now, now_ms)))
  /\ stNotes' = notes
  /\ stOrder' = order
  /\ stLast' = [op |-> op, id |-> id, before |-> anchorInfoArray, found |-> g.result,
                slot |-> g.anchorCtx.anchorInfo, call |-> stLast.call + 1,
                reads |-> StReads(after, now)]
  /\ UNCHANGED <<matchingOffset, previousAnchor, rangingOk, packetCount, last, heard>>
  /\ UNCHANGED <<ccVars, maskVars, driverVars, statsVars>>

\* The notes of the slots after a call of tdoaStorageGetCreateAnchorCtx.
NotesAfter(g) ==
  IF g.result THEN stNotes ELSE [stNotes EXCEPT ![g.anchorCtx.anchorInfo] = NoNotes]

\* tdoaEngineGetAnchorCtxForPacketProcessing, then tdoaStorageSetRxTxData.
StRegister ==
  /\ stLast.call < MaxStCalls
  /\ \E id \in StIdsToName :
     \E now \in {U32Add(now_ms, StShortStep)} :
     \E g \in {tdoaEngineGetAnchorCtxForPacketProcessing(anchorInfoArray, id, now)} :
       StDone("register", id, g,
              tdoaStorageSetRxTxData(g.anchorStorage, g.anchorCtx, TagClock(now),
                                     AnchorClock(id, now),
                                     (tdoaStorageGetSeqNr(g.anchorStorage, g.anchorCtx) + 1) % 128),
              now,
              [NotesAfter(g) EXCEPT ![g.anchorCtx.anchorInfo].updated =
                                       At(TsAddRaw(stTime, TsOfInt(StShortStep)))],
              Append(stOrder, [id |-> id, registered |-> TRUE]))

\* tdoaStorageGetCreateAnchorCtx as the peer selection calls it.
StCreate ==
  /\ stLast.call < MaxStCalls
  /\ \E id \in StIdsToName :
     \E now \in {U32Add(now_ms, StShortStep)} :
     \E g \in {tdoaStorageGetCreateAnchorCtx(anchorInfoArray, id, now)} :
       StDone("create", id, g, g.anchorStorage, now, NotesAfter(g),
              Append(stOrder, [id |-> id, registered |-> FALSE]))

\* tdoaStorageSetAnchorPosition on the record of an id in the storage.
StSetPosition ==
  /\ stLast.call < MaxStCalls
  /\ \E id \in StIdsInUse :
     \E now \in {U32Add(now_ms, StShortStep)} :
     \E g \in {tdoaStorageGetAnchorCtx(anchorInfoArray, id, now)} :
       /\ g.result
       /\ StDone("position", id, g,
                 tdoaStorageSetAnchorPosition(anchorInfoArray, g.anchorCtx, id + 1), now,
                 [stNotes EXCEPT ![g.anchorCtx.anchorInfo].positioned =
                                    At(TsAddRaw(stTime, TsOfInt(StShortStep)))],
                 stOrder)

\* Time passes.
StTick ==
  /\ stLast.call < MaxStCalls
  /\ \E dt \in StSteps :
       StDone("tick", 0, [result |-> FALSE, anchorCtx |-> NoAnchorCtx(now_ms)],
              anchorInfoArray, U32Add(now_ms, dt), stNotes, stOrder)

\* The reads of the other tasks at the time of the last call: a look-up of
\* an id, the driver's getAnchorPosition, getAnchorIdList and
\* getActiveAnchorIdList.  The look-up is the one call of theirs that is
\* handed the storage without a const; the storage afterwards is what it left.
StRead ==
  /\ stLast.call < MaxStCalls
  /\ \E id \in StIds :
     \E g \in {tdoaStorageGetAnchorCtx(anchorInfoArray, id, now_ms)} :
       StDone("read", id, g, g.anchorStorage, now_ms, stNotes, stOrder)

-----------------------------------------------------------------------------
(* The remote data of one record called on its own: the reception time and *)
(* sequence number of a remote anchor are stored, the time of flight to a  *)
(* remote anchor is stored, or time passes.  The remote ids are as many as *)
(* a table has entries, which is what the driver stores.  With each call   *)
(* go the reads: the remote data and the time of flight of each id, and    *)
(* the list of sequence numbers.                                           *)

RmAnchor == 0
RmIds == 0..(REMOTE_ANCHOR_DATA_COUNT - 1)
MaxRmCalls == REMOTE_ANCHOR_DATA_COUNT + 2
\* From LongGap to ten ms before the counter of ms wraps.
WrapGap == Int32Max - 2009
RmSteps == {1, REMOTE_DATA_VALIDITY_PERIOD - 1, TOF_VALIDITY_PERIOD - 1, LongGap, WrapGap}

RmNever == [set |-> FALSE, at |-> TsZero, rxTime |-> TsZero, seqNr |-> 0, tof |-> 0]
RmNoNotes == [rx |-> [id \in RmIds |-> RmNever], tof |-> [id \in RmIds |-> RmNever]]

RmCtx(anchorStorage, now) == tdoaStorageGetAnchorCtx(anchorStorage, RmAnchor, now).anchorCtx

RmReads(anchorStorage, ctx) ==
  [rx |-> [id \in RmIds |-> tdoaStorageGetRemoteRxTimeSeqNr(anchorStorage, ctx, id)],
   list |-> tdoaStorageGetRemoteSeqNrList(anchorStorage, ctx),
   tof |-> [id \in RmIds |-> tdoaStorageGetRemoteTimeOfFlight(anchorStorage, ctx, id)]]

RmStorage == tdoaStorageGetCreateAnchorCtx(tdoaStorageInitialize, RmAnchor, 0).anchorStorage

RmInit ==
  /\ stTime = TsZero
  /\ stNotes = RmNoNotes
  /\ stOrder = <<>>
  /\ stLast = [op |-> "none", id |-> 0, call |-> 0, before |-> RmStorage,
               reads |-> RmReads(RmStorage, RmCtx(RmStorage, 0))]

RmDone(op, id, after, now, notes) ==
  /\ anchorInfoArray' = after
  /\ now_ms' = now
  /\ stTime' = TsAddRaw(stTime, U32ToTs(U32Sub(now, now_ms)))
  /\ stNotes' = notes
  /\ stLast' = [op |-> op, id |-> id, call |-> stLast.call + 1, before |-> anchorInfoArray,
                reads |-> RmReads(after, RmCtx(after, now))]
  /\ UNCHANGED <<matchingOffset, previousAnchor, rangingOk, packetCount, last, heard, stOrder>>
  /\ UNCHANGED <<ccVars, maskVars, driverVars, statsVars>>

\* tdoaStorageSetRemoteRxTime with values that differ from call to call.
RmSetRx ==
  /\ stLast.call < MaxRmCalls
  /\ \E id \in RmIds :
       RmDone("rx", id,
              tdoaStorageSetRemoteRxTime(anchorInfoArray, RmCtx(anchorInfoArray, now_ms), id,
                                         TsOfInt(stLast.call + 1), (stLast.call + 1) % 128),
              now_ms,
              [stNotes EXCEPT !.rx[id] = [RmNever EXCEPT !.set = TRUE, !.at = stTime,
                                                         !.rxTime = TsOfInt(stLast.call + 1),
                                                         !.seqNr = (stLast.call + 1) % 128]])

\* tdoaStorageSetRemoteTimeOfFlight with a time of flight that is not 0.
RmSetTof ==
  /\ stLast.call < MaxRmCalls
  /\ \E id \in RmIds :
       RmDone("tof", id,
              tdoaStorageSetRemoteTimeOfFlight(anchorInfoArray, RmCtx(anchorInfoArray, now_ms), id,
                                               stLast.call + 1),
              now_ms,
              [stNotes EXCEPT !.tof[id] = [RmNever EXCEPT !.set = TRUE, !.at = stTime,
                                                          !.tof = stLast.call + 1]])

RmTick ==
  /\ stLast.call < MaxRmCalls
  /\ \E dt \in RmSteps :
       RmDone("tick", 0, anchorInfoArray, U32Add(now_ms, dt), stNotes)

-----------------------------------------------------------------------------
(* The peer selection called on its own.  Anchor MtAnchor has a record     *)
(* with a clock correction of 1.0.  The other anchors are registered (a    *)
(* packet of theirs with its position), or get a record without an update  *)
(* as a peer selection leaves it; a selection that finds no remote data    *)
(* moves matching.offset on; then a packet of MtAnchor reports some of the *)
(* others, with the sequence number of their record or another one, with   *)
(* or without a time of flight, and tdoaEngineProcessPacketFiltered runs   *)
(* with one of the two algorithms and with or without an excluded id.      *)
(* Each of the other anchors is registered or given a record once.         *)

MtAnchor == 0
MtCandidates == 1..(ANCHOR_STORAGE_COUNT - 1)
MaxMtRegistrations == ANCHOR_STORAGE_COUNT - 1
MaxMtOffset == 1
MtSteps == {0, 10}
MtKinds == {"none", "match", "mismatch", "notof"}
MtAlgorithms == {"TdoaEngineMatchingAlgorithmRandom", "TdoaEngineMatchingAlgorithmYoungest"}
MtExclusions ==
  {[doExcludeId |-> FALSE, excludedId |-> 0]} \cup [doExcludeId : {TRUE}, excludedId : MtCandidates]

\* The record of a registered anchor: times, sequence number and position.
MtRegistered(anchorStorage, anchorCtx, id, now) ==
  tdoaStorageSetAnchorPosition(
    tdoaStorageSetRxTxData(anchorStorage, anchorCtx, TagClock(now), AnchorClock(id, now),
                           (tdoaStorageGetSeqNr(anchorStorage, anchorCtx) + 1) % 128),
    anchorCtx, id)

\* The record of MtAnchor after a packet at time 0, with a clock correction.
MtSeeded(g) ==
  [MtRegistered(g.anchorStorage, g.anchorCtx, MtAnchor, 0) EXCEPT
     ![g.anchorCtx.anchorInfo].clockCorrectionStorage.clockCorrection = CC_ONE]

MtStorage == MtSeeded(tdoaStorageGetCreateAnchorCtx(tdoaStorageInitialize, MtAnchor, 0))

MtCtx(anchorStorage, now) == tdoaStorageGetAnchorCtx(anchorStorage, MtAnchor, now).anchorCtx

MtNothing ==
  [op |-> "none", registrations |-> 0, before |-> MtStorage, offset |-> 0,
   algorithm |-> "TdoaEngineMatchingAlgorithmNone", doExcludeId |-> FALSE, excludedId |-> 0,
   selectionDone |-> FALSE, found |-> FALSE, peer |-> NoSlot, sent |-> FALSE,
   anchorIds |-> <<>>, moduloByZero |-> FALSE]

MtInit ==
  /\ anchorInfoArray = MtStorage
  /\ now_ms = 10
  /\ stTime = TsOfInt(10)
  /\ stNotes = <<>>
  /\ stOrder = <<>>
  /\ stLast = MtNothing

MtDone(after, offset, now, note) ==
  /\ anchorInfoArray' = after
  /\ matchingOffset' = offset
  /\ now_ms' = now
  /\ stTime' = TsAddRaw(stTime, TsOfInt(now - now_ms))
  /\ stLast' = note
  /\ UNCHANGED <<previousAnchor, rangingOk, packetCount, last, heard, stNotes, stOrder>>
  /\ UNCHANGED <<ccVars, maskVars, driverVars, statsVars>>

\* A packet of another anchor: its record is looked up or created and updated.
MtRegister ==
  /\ stLast.op # "select" /\ stLast.registrations < MaxMtRegistrations
  /\ \E id \in MtCandidates : \E dt \in MtSteps :
     \E g \in {n \in {tdoaEngineGetAnchorCtxForPacketProcessing(anchorInfoArray, id, now_ms + dt)} :
                ~n.result} :
       MtDone(MtRegistered(g.anchorStorage, g.anchorCtx, id, now_ms + dt), matchingOffset,
              now_ms + dt,
              [MtNothing EXCEPT !.op = "register", !.registrations = stLast.registrations + 1])

\* The tdoaStorageGetCreateAnchorCtx of a peer selection for an id without a record.
MtCreate ==
  /\ stLast.op # "select" /\ stLast.registrations < MaxMtRegistrations
  /\ \E id \in MtCandidates :
       /\ ~tdoaStorageIsAnchorInStorage(anchorInfoArray, id)
       /\ MtDone(tdoaStorageGetCreateAnchorCtx(anchorInfoArray, id, now_ms).anchorStorage,
                 matchingOffset, now_ms,
                 [MtNothing EXCEPT !.op = "create", !.registrations = stLast.registrations + 1])

\* findSuitableAnchor with the random matching while no remote data is held.
MtNoCandidates ==
  /\ stLast.op # "select" /\ matchingOffset < MaxMtOffset
  /\ \E f \in {findSuitableAnchor(anchorInfoArray, matchingOffset,
                                  "TdoaEngineMatchingAlgorithmRandom",
                                  MtCtx(anchorInfoArray, now_ms), FALSE, 0)} :
       MtDone(f.anchorStorage, f.offset, now_ms,
              [MtNothing EXCEPT !.op = "idle", !.registrations = stLast.registrations])

\* The sequence number a packet reports for id.
MtReportedSeqNr(anchorStorage, id, kind) ==
  ((IF tdoaStorageIsAnchorInStorage(anchorStorage, id)
    THEN tdoaStorageGetSeqNr(anchorStorage, tdoaStorageGetAnchorCtx(anchorStorage, id, 0).anchorCtx)
    ELSE 0) + (IF kind = "mismatch" THEN 1 ELSE 0)) % 128

MtReportTof(anchorStorage, anchorCtx, id, kind) ==
  IF kind = "notof" THEN anchorStorage
  ELSE tdoaStorageSetRemoteTimeOfFlight(anchorStorage, anchorCtx, id, TofTicks)

\* The remote data of the packet from id on, stored as updateRemoteData does.
RECURSIVE MtReport(_, _, _, _)
MtReport(anchorStorage, anchorCtx, kinds, id) ==
  IF id \notin MtCandidates THEN anchorStorage
  ELSE IF kinds[id] = "none" THEN MtReport(anchorStorage, anchorCtx, kinds, id + 1)
  ELSE MtReport(MtReportTof(tdoaStorageSetRemoteRxTime(
                              anchorStorage, anchorCtx, id,
                              AnchorClock(MtAnchor, anchorCtx.currentTime_ms),
                              MtReportedSeqNr(anchorStorage, id, kinds[id])),
                            anchorCtx, id, kinds[id]),
                anchorCtx, kinds, id + 1)

\* The peer a selection found.
MtPeer(f) == IF f.result THEN tdoaStorageGetId(f.anchorStorage, f.otherAnchorCtx) ELSE NoSlot

MtSelected(s, x, algorithm, p, f) ==
  MtDone(p.anchorStorage, p.offset, now_ms,
         [op |-> "select", registrations |-> stLast.registrations, before |-> s,
          offset |-> matchingOffset, algorithm |-> algorithm,
          doExcludeId |-> x.doExcludeId, excludedId |-> x.excludedId,
          selectionDone |-> p.selectionDone, found |-> f.result, peer |-> MtPeer(f),
          sent |-> p.sent,
          anchorIds |-> p.tdoaMeasurement.anchorIds, moduloByZero |-> f.moduloByZero])

\* A packet of MtAnchor: updateRemoteData, then tdoaEngineProcessPacketFiltered.
MtPacket ==
  /\ stLast.op # "select"
  /\ \E kinds \in [MtCandidates -> MtKinds] : \E algorithm \in MtAlgorithms :
     \E x \in MtExclusions :
     \E c \in {MtCtx(anchorInfoArray, now_ms)} :
     \E s \in {MtReport(anchorInfoArray, c, kinds, 1)} :
     \E u \in {updateClockCorrection(s, c, AnchorClock(MtAnchor, now_ms), TagClock(now_ms))} :
       MtSelected(s, x, algorithm,
                  ProcessPacketUpdated(u, matchingOffset, algorithm, c,
                                       AnchorClock(MtAnchor, now_ms), TagClock(now_ms),
                                       x.doExcludeId, x.excludedId),
                  findSuitableAnchor(u.anchorStorage, matchingOffset, algorithm, c,
                                     x.doExcludeId, x.excludedId))

-----------------------------------------------------------------------------
(* The random matching over the whole range of matching.offset.  Anchor    *)
(* MtAnchor has a record with a clock correction and anchor 1 a record of  *)
(* its own.  A packet of MtAnchor stores remote data (a reception time and *)
(* a time of flight) of a remote anchor, time passes by the period the     *)
(* remote data is valid for, or findSuitableAnchor runs with the random    *)
(* matching: matching.offset is a uint8_t that every selection moves on,   *)
(* so that it goes through all its values and back to 0.                   *)

RnIds == {1, 2}
MaxRnReports == 2
MaxRnTime == 10 + 2 * REMOTE_DATA_VALIDITY_PERIOD
RnExclusions ==
  {[doExcludeId |-> FALSE, excludedId |-> 0], [doExcludeId |-> TRUE, excludedId |-> 1]}

RnStorage ==
  LET g == tdoaStorageGetCreateAnchorCtx(MtStorage, 1, 0)
  IN  MtRegistered(g.anchorStorage, g.anchorCtx, 1, 0)

RnInit ==
  /\ anchorInfoArray = RnStorage
  /\ now_ms = 10
  /\ stTime = TsOfInt(10)
  /\ stNotes = <<>>
  /\ stOrder = <<>>
  /\ stLast = [MtNothing EXCEPT !.before = RnStorage]

\* updateRemoteData for a packet of MtAnchor that reports one remote anchor.
RnReport ==
  /\ stLast.registrations < MaxRnReports
  /\ \E id \in RnIds : \E kind \in {"match", "notof"} :
     \E c \in {MtCtx(anchorInfoArray, now_ms)} :
       MtDone(MtReportTof(tdoaStorageSetRemoteRxTime(
                            anchorInfoArray, c, id, AnchorClock(MtAnchor, now_ms),
                            MtReportedSeqNr(anchorInfoArray, id, kind)),
                          c, id, kind),
              matchingOffset, now_ms,
              [MtNothing EXCEPT !.op = "report", !.before = anchorInfoArray,
                                !.registrations = stLast.registrations + 1])

\* The remote data stored so far expires.
RnTick ==
  /\ now_ms + REMOTE_DATA_VALIDITY_PERIOD <= MaxRnTime
  /\ MtDone(anchorInfoArray, matchingOffset, now_ms + REMOTE_DATA_VALIDITY_PERIOD,
            [MtNothing EXCEPT !.op = "tick", !.before = anchorInfoArray,
                              !.registrations = stLast.registrations])

\* findSuitableAnchor with the random matching.
RnSelect ==
  \E x \in RnExclusions :
  \E f \in {findSuitableAnchor(anchorInfoArray, matchingOffset,
                               "TdoaEngineMatchingAlgorithmRandom",
                               MtCtx(anchorInfoArray, now_ms), x.doExcludeId, x.excludedId)} :
    MtDone(f.anchorStorage, f.offset, now_ms,
           [MtNothing EXCEPT !.op = "select", !.before = anchorInfoArray,
                             !.registrations = stLast.registrations,
                             !.offset = matchingOffset,
                             !.algorithm = "TdoaEngineMatchingAlgorithmRandom",
                             !.doExcludeId = x.doExcludeId, !.excludedId = x.excludedId,
                             !.selectionDone = TRUE, !.found = f.result,
                             !.peer = MtPeer(f), !.moduloByZero = f.moduloByZero])

-----------------------------------------------------------------------------
(* The engine called for one more anchor than the storage has slots.       *)
(* Anchor MtAnchor has a record with a clock correction.  A packet of      *)
(* another anchor is registered, or a packet of MtAnchor goes through the  *)
(* calls of rxcallback: tdoaEngineGetAnchorCtxForPacketProcessing, the     *)
(* remote data of one anchor stored as updateRemoteData stores it,         *)
(* tdoaEngineProcessPacket and tdoaStorageSetRxTxData, all on the context  *)
(* the first call filled in.  Ten ms pass between two packets.             *)

OwIds == 1..ANCHOR_STORAGE_COUNT
MaxOwPackets == ANCHOR_STORAGE_COUNT
OwStep == 10

OwNothing ==
  [op |-> "none", registrations |-> 0, before |-> MtStorage, anchor |-> MtAnchor,
   slot |-> NoSlot, found |-> FALSE, rxTime |-> TsZero, txTime |-> TsZero, seqNr |-> 0,
   reported |-> 0, algorithm |-> "TdoaEngineMatchingAlgorithmNone",
   selectionDone |-> FALSE, processed |-> MtStorage]

OwInit ==
  /\ anchorInfoArray = MtStorage
  /\ now_ms = 10
  /\ stTime = TsOfInt(10)
  /\ stNotes = <<>>
  /\ stOrder = <<>>
  /\ stLast = OwNothing

\* A packet of another anchor: its record is looked up or created and updated.
OwRegister ==
  /\ stLast.registrations < MaxOwPackets
  /\ \E id \in OwIds : \E now \in {now_ms + OwStep} :
     \E g \in {tdoaEngineGetAnchorCtxForPacketProcessing(anchorInfoArray, id, now)} :
       MtDone(MtRegistered(g.anchorStorage, g.anchorCtx, id, now), matchingOffset, now,
              [OwNothing EXCEPT !.op = "register", !.before = anchorInfoArray,
                                !.registrations = stLast.registrations + 1,
                                !.anchor = id, !.slot = g.anchorCtx.anchorInfo])

\* A packet of MtAnchor that reports the remote anchor id.
OwPacket ==
  /\ stLast.registrations < MaxOwPackets
  /\ \E id \in OwIds : \E kind \in {"match", "notof"} : \E algorithm \in MtAlgorithms :
     \E now \in {now_ms + OwStep} :
     \E g \in {tdoaEngineGetAnchorCtxForPacketProcessing(anchorInfoArray, MtAnchor, now)} :
     \E seqNr \in {(tdoaStorageGetSeqNr(g.anchorStorage, g.anchorCtx) + 1) % 128} :
     \E s \in {MtReportTof(tdoaStorageSetRemoteRxTime(
                               g.anchorStorage, g.anchorCtx, id, AnchorClock(MtAnchor, now),
                               MtReportedSeqNr(g.anchorStorage, id, kind)),
                             g.anchorCtx, id, kind)} :
     \E p \in {tdoaEngineProcessPacket(s, matchingOffset, algorithm, g.anchorCtx,
                                        AnchorClock(MtAnchor, now), TagClock(now))} :
       MtDone(tdoaStorageSetRxTxData(p.anchorStorage, g.anchorCtx, TagClock(now),
                                     AnchorClock(MtAnchor, now), seqNr),
              p.offset, now,
              [OwNothing EXCEPT !.op = "packet", !.before = anchorInfoArray,
                                !.registrations = stLast.registrations + 1,
                                !.slot = g.anchorCtx.anchorInfo, !.found = g.result,
                                !.rxTime = TagClock(now),
                                !.txTime = AnchorClock(MtAnchor, now), !.seqNr = seqNr,
                                !.reported = id, !.algorithm = algorithm,
                                !.selectionDone = p.selectionDone,
                                !.processed = p.anchorStorage])

-----------------------------------------------------------------------------
(* Specifications *)

Next == PacketReceived
Init == EngineInit /\ CcIdle /\ MaskIdle /\ StorageIdle /\ DriverIdle /\ StatsIdle
Spec == Init /\ [][Next]_vars

SpecMaskNext == MaskApply
SpecMaskInit == MaskInit /\ CcIdle /\ EngineInit /\ StorageIdle /\ DriverIdle /\ StatsIdle
SpecMask == SpecMaskInit /\ [][SpecMaskNext]_vars

SpecCCNext == CcUpdate \/ CcZero
SpecCCInit == CcIdle /\ MaskIdle /\ EngineInit /\ StorageIdle /\ DriverIdle /\ StatsIdle
SpecCC == SpecCCInit /\ [][SpecCCNext]_vars

\* The clock-correction update with a stream of identical candidates; the
\* updates go on for ever.
SpecStreamNext == StreamUpdate
SpecStreamInit == StreamInit /\ MaskIdle /\ EngineInit /\ StorageIdle /\ DriverIdle /\ StatsIdle
SpecStream == SpecStreamInit /\ [][SpecStreamNext]_vars /\ WF_vars(StreamUpdate)

\* The clock-correction update both ways: through the packets of the driver,
\* or called on its own with the candidates of CcCandidates.
CcUntouched == ccLast = CcNoCall
EngineUntouched == packetCount = 0
SpecUpdateNext ==
  \/ CcUntouched /\ PacketReceived
  \/ EngineUntouched /\ CcUpdate
  \/ EngineUntouched /\ CcZero
SpecUpdateInit == EngineInit /\ CcIdle /\ MaskIdle /\ StorageIdle /\ DriverIdle /\ StatsIdle
SpecUpdate == SpecUpdateInit /\ [][SpecUpdateNext]_vars

\* The storage called on its own.
SpecStorageNext == StRegister \/ StCreate \/ StSetPosition \/ StTick
SpecStorageInit == EngineInit /\ CcIdle /\ MaskIdle /\ StorageIdle /\ DriverIdle /\ StatsIdle
SpecStorage == SpecStorageInit /\ [][SpecStorageNext]_vars

\* The storage with the calls of the event handler and the reads of the
\* other tasks between them.
SpecReadsNext == StRegister \/ StCreate \/ StSetPosition \/ StTick \/ StRead
SpecReadsInit == EngineInit /\ CcIdle /\ MaskIdle /\ StorageIdle /\ DriverIdle /\ StatsIdle
SpecReads == SpecReadsInit /\ [][SpecReadsNext]_vars

\* The remote data of one record called on its own.
SpecRemoteNext == RmSetRx \/ RmSetTof \/ RmTick
SpecRemoteInit == anchorInfoArray = RmStorage /\ EngineIdle /\ CcIdle /\ MaskIdle /\ RmInit /\ DriverIdle /\ StatsIdle
SpecRemote == SpecRemoteInit /\ [][SpecRemoteNext]_vars

\* The events of the driver.
SpecDriverNext == OnPacketReceived \/ OnReceiveFailure \/ OnPacketSent \/ DriverInitialize
SpecDriverInit == EngineInit /\ CcIdle /\ MaskIdle /\ StorageIdle /\ DriverIdle /\ StatsIdle
SpecDriver == SpecDriverInit /\ [][SpecDriverNext]_vars

\* The peer selection called on its own.
SpecMatchNext == MtRegister \/ MtCreate \/ MtNoCandidates \/ MtPacket
SpecMatchInit ==
  /\ MtInit
  /\ matchingOffset = 0 /\ previousAnchor = 0 /\ rangingOk = FALSE /\ packetCount = 0
  /\ last = NoPacketYet /\ heard = {}
  /\ CcIdle /\ MaskIdle /\ DriverIdle /\ StatsIdle
SpecMatch == SpecMatchInit /\ [][SpecMatchNext]_vars

\* The engine with one more anchor than slots.
SpecOwnerNext == OwRegister \/ OwPacket
SpecOwnerInit ==
  /\ OwInit
  /\ matchingOffset = 0 /\ previousAnchor = 0 /\ rangingOk = FALSE /\ packetCount = 0
  /\ last = NoPacketYet /\ heard = {}
  /\ CcIdle /\ MaskIdle /\ DriverIdle /\ StatsIdle
SpecOwner == SpecOwnerInit /\ [][SpecOwnerNext]_vars

\* The statistics on their own.
SpecStatsNext == StatsFocus \/ StatsTracked \/ StatsUpdate
SpecStatsInit == EngineInit /\ CcIdle /\ MaskIdle /\ StorageIdle /\ DriverIdle /\ StatsIdle
SpecStats == SpecStatsInit /\ [][SpecStatsNext]_vars

\* The random matching over all values of matching.offset.
SpecRandomNext == RnReport \/ RnTick \/ RnSelect
SpecRandomInit ==
  /\ RnInit
  /\ matchingOffset = 0 /\ previousAnchor = 0 /\ rangingOk = FALSE /\ packetCount = 0
  /\ last = NoPacketYet /\ heard = {}
  /\ CcIdle /\ MaskIdle /\ DriverIdle /\ StatsIdle
SpecRandom == SpecRandomInit /\ [][SpecRandomNext]_vars

-----------------------------------------------------------------------------
(* Claims about the masked subtraction (SpecMask) *)

-----------------------------------------------------------------------------
(* Claims about the clock-correction filter (SpecCC) *)

CcUpdated == ccLast.op = "update"
CcOutOfGate == ~WithinAcceptedNoise(ccLast.candidate - ccLast.before.clockCorrection)
CcMoreThanNoise ==
  \/ ccLast.candidate - ccLast.before.clockCorrection > CLOCK_CORRECTION_ACCEPTED_NOISE
  \/ ccLast.before.clockCorrection - ccLast.candidate > CLOCK_CORRECTION_ACCEPTED_NOISE

\* C4 as stated: in every state, bucket = 0 included, one update with a
\* candidate that differs from c by more than NOISE leaves c unchanged.
C4_OutlierLeavesCorrection ==
  (CcUpdated /\ CcMoreThanNoise) =>
    ccStorage.clockCorrection = ccLast.before.clockCorrection

\* C4 amended: one update with a candidate that differs from c by more than
\* NOISE leaves c unchanged when the bucket is above 0 or the candidate is
\* not strictly inside (SPEC_MIN, SPEC_MAX); with bucket = 0 and the candidate
\* inside the limits c becomes the candidate.
C4_OutlierLeavesCorrectionUnlessReseed ==
  (CcUpdated /\ CcMoreThanNoise) =>
    IF ccLast.before.clockCorrectionBucket = 0
       /\ CLOCK_CORRECTION_SPEC_MIN < ccLast.candidate
       /\ ccLast.candidate < CLOCK_CORRECTION_SPEC_MAX
    THEN ccStorage.clockCorrection = ccLast.candidate
    ELSE ccStorage.clockCorrection = ccLast.before.clockCorrection

\* C4 witness: an in-spec outlier met a bucket above 0 and c stayed.
C4_Witness ==
  /\ CcUpdated /\ CcMoreThanNoise
  /\ ccLast.before.clockCorrectionBucket > 0
  /\ ccLast.candidate = CC_ONE + 10000
  /\ ccStorage.clockCorrection = ccLast.before.clockCorrection

\* C6: after at most BUCKET_MAX + 1 = 5 consecutive updates with one
\* candidate c' that was outside the noise gate of c when the run began and is
\* strictly inside (SPEC_MIN, SPEC_MAX), the stored correction is c'.
C6_ReseedWithinFive ==
  ccRun.n >= 5 => ccStorage.clockCorrection = ccRun.candidate

\* C6 witness: the fifth update of such a run is the one that reseeded.
C6_Witness ==
  /\ ccRun.n = 5
  /\ ccLast.before.clockCorrection # ccRun.candidate
  /\ ccStorage.clockCorrection = ccRun.candidate

\* C7 as stated: the correction is 0 from creation until an update has
\* returned reliable; no unreliable update makes it non-zero.
C7_ZeroUntilReliable ==
  ~ccReliableSeen => ccStorage.clockCorrection = 0

\* C7 amended: the correction is 0 at creation; an unreliable update changes
\* it only by reseeding, when the bucket is 0 and the candidate is strictly
\* inside (SPEC_MIN, SPEC_MAX), and then to the candidate; so until an update
\* has returned reliable it is 0 or a reseeded value inside the limits.
C7_ZeroUntilReliableOrReseed ==
  /\ ccLast.op = "zero" => ccStorage.clockCorrection = 0
  /\ (CcUpdated /\ ~ccLast.reliable
        /\ ccStorage.clockCorrection # ccLast.before.clockCorrection) =>
       /\ ccLast.before.clockCorrectionBucket = 0
       /\ ccStorage.clockCorrection = ccLast.candidate
       /\ CLOCK_CORRECTION_SPEC_MIN < ccLast.candidate
       /\ ccLast.candidate < CLOCK_CORRECTION_SPEC_MAX
  /\ ~ccReliableSeen =>
       \/ ccStorage.clockCorrection = 0
       \/ /\ CLOCK_CORRECTION_SPEC_MIN < ccStorage.clockCorrection
          /\ ccStorage.clockCorrection < CLOCK_CORRECTION_SPEC_MAX

\* C7 witness: no update has been reliable yet and the correction was just
\* reseeded from 0.
C7_Witness ==
  /\ ~ccReliableSeen
  /\ CcUpdated
  /\ ccLast.before.clockCorrection = 0
  /\ ccStorage.clockCorrection = CC_ONE

\* C8: the bucket is always in 0..4; a reliable update makes it
\* min(bucket + 1, 4), an out-of-gate update max(bucket - 1, 0), and zeroing
\* the record makes it 0.
C8_BucketBounds ==
  /\ ccStorage.clockCorrectionBucket \in 0..4
  /\ (CcUpdated /\ ccLast.reliable) =>
       ccStorage.clockCorrectionBucket =
         IF ccLast.before.clockCorrectionBucket + 1 < 4
         THEN ccLast.before.clockCorrectionBucket + 1 ELSE 4
  /\ (CcUpdated /\ CcOutOfGate) =>
       /\ ~ccLast.reliable
       /\ ccStorage.clockCorrectionBucket =
            IF ccLast.before.clockCorrectionBucket - 1 > 0
            THEN ccLast.before.clockCorrectionBucket - 1 ELSE 0
  /\ ccLast.op = "zero" => ccStorage.clockCorrectionBucket = 0

\* C8 witness: a reliable update met a full bucket, which stayed at 4.
C8_Witness ==
  /\ CcUpdated /\ ccLast.reliable
  /\ ccLast.before.clockCorrectionBucket = 4
  /\ ccStorage.clockCorrectionBucket = 4

\* C9 as stated: on an out-of-gate candidate strictly inside the limits, a
\* bucket that reaches 0 by the decrement (bucket = 1 before) is reseeded in
\* that same update: c = cand afterwards, not reliable, bucket 0.
C9_ReseedWhenBucketReachesZero ==
  (CcUpdated /\ CcOutOfGate /\ ccLast.before.clockCorrectionBucket = 1
     /\ CLOCK_CORRECTION_SPEC_MIN < ccLast.candidate
     /\ ccLast.candidate < CLOCK_CORRECTION_SPEC_MAX) =>
    /\ ccStorage.clockCorrection = ccLast.candidate
    /\ ~ccLast.reliable
    /\ ccStorage.clockCorrectionBucket = 0

-----------------------------------------------------------------------------
(* Claims about the processing of packets (Spec, SpecUpdate) *)

\* The record of the anchor of the last packet, and of the peer that the last
\* measurement names first.
LastRecord == anchorInfoArray[last.anchorCtx.anchorInfo]
PeerId == last.tdoaMeasurement.anchorIds[1]
PeerRecord ==
  anchorInfoArray[tdoaStorageGetAnchorCtx(anchorInfoArray, PeerId, last.now).anchorCtx.anchorInfo]

\* now - timestamp < 2 s, as times of a 32-bit millisecond counter.
WithinTwoSeconds(position, now) ==
  U32Less(U32Sub(now, position.timestamp), ANCHOR_POSITION_VALIDITY_PERIOD)

\* C1 as stated: the estimator callback is called while a packet of anchor a
\* is processed only if the clock-correction update of the packet returned
\* reliable, a's clock correction is above 0, and the records of the peer and
\* of a hold positions stamped within 2 s of the packet's now.
C1_EmissionPrecondition ==
  last.sent =>
    /\ last.timeIsGood
    /\ LastRecord.clockCorrectionStorage.clockCorrection > 0
    /\ WithinTwoSeconds(PeerRecord.position, last.now)
    /\ WithinTwoSeconds(last.before.position, last.now)

\* The entries of a's tables for the peer that have not expired at the packet.
PeerRxEntries ==
  { i \in DOMAIN LastRecord.remoteAnchorData :
      /\ LastRecord.remoteAnchorData[i].id = PeerId
      /\ U32Less(last.now, LastRecord.remoteAnchorData[i].endOfLife) }
PeerTofEntries ==
  { i \in DOMAIN LastRecord.remoteTof :
      /\ LastRecord.remoteTof[i].id = PeerId
      /\ U32Less(last.now, LastRecord.remoteTof[i].endOfLife) }

Mask32(x) == <<x[1] % 4096, x[2]>>

\* mask(rx_tag_a - rx_r_tag) - (tof_ra + mask(tx_a - rx_r_by_a)) * c in ticks.
TdoaAsClaimed(rx_tag_a, rx_r_tag, tof_ra, tx_a, rx_r_by_a, c) ==
  Int64OfDifference(Mask32(TsSub64(rx_tag_a, rx_r_tag)),
                    TsAddRaw(TsOfInt(tof_ra), Mask32(TsSub64(tx_a, rx_r_by_a))), c)

\* Scenario S3: the records of anchors 3 and 4 as seeded, at time 100.
S3Storage ==
  LET g3 == tdoaStorageGetCreateAnchorCtx(tdoaStorageInitialize, 3, 100)
      s1 == [g3.anchorStorage EXCEPT
               ![g3.anchorCtx.anchorInfo].clockCorrectionStorage.clockCorrection = CC_ONE]
      s2 == tdoaStorageSetAnchorPosition(s1, g3.anchorCtx, 0)
      s3 == tdoaStorageSetRemoteRxTime(s2, g3.anchorCtx, 4, TsOfInt(500000), 9)
      s4 == tdoaStorageSetRemoteTimeOfFlight(s3, g3.anchorCtx, 4, 1000)
      g4 == tdoaStorageGetCreateAnchorCtx(s4, 4, 100)
      s5 == tdoaStorageSetAnchorPosition(g4.anchorStorage, g4.anchorCtx, 1)
  IN  tdoaStorageSetRxTxData(s5, g4.anchorCtx, TsOfInt(500300), TsOfInt(400000), 9)

\* C3: when the packet (tx_a, rx_tag_a) of anchor a selects the peer r and a
\* measurement is sent, its ids are <<r, a>>, its positions are those of r's
\* and of a's record, and its ticks are mask(rx_tag_a - rx_r_tag) -
\* (tof_ra + mask(tx_a - rx_r_by_a)) * c, with r's stored rx time, a's
\* unexpired remote-rx and remote-tof entries for r and a's clock correction;
\* scenario S3 gives -1000 ticks.
C3_MeasurementAsComputed ==
  /\ last.sent =>
       /\ last.tdoaMeasurement.anchorIds = <<PeerRecord.id, last.anchor>>
       /\ PeerRecord.isInitialized /\ PeerId # last.anchor
       /\ last.tdoaMeasurement.anchorPositions = <<PeerRecord.position, last.before.position>>
       /\ Cardinality(PeerRxEntries) = 1 /\ Cardinality(PeerTofEntries) = 1
       /\ \A i \in PeerRxEntries, j \in PeerTofEntries :
            last.tdoaMeasurement.tdoa =
              TdoaAsClaimed(last.rxAn_by_T_in_cl_T, PeerRecord.rxTime,
                            LastRecord.remoteTof[j].tof, last.txAn_in_cl_An,
                            LastRecord.remoteAnchorData[i].rxTime,
                            LastRecord.clockCorrectionStorage.clockCorrection)
  /\ calcTDoA(S3Storage, tdoaStorageGetAnchorCtx(S3Storage, 4, 100).anchorCtx,
              tdoaStorageGetAnchorCtx(S3Storage, 3, 100).anchorCtx,
              TsOfInt(500200), TsOfInt(500500))
       = SignedAddInt(TsZero, 0 - 1000)

\* C3 witness: a measurement was sent with a clock correction other than 1
\* and a tick value other than 0.
C3_Witness ==
  /\ last.sent
  /\ LastRecord.clockCorrectionStorage.clockCorrection # CC_ONE
  /\ last.tdoaMeasurement.tdoa # TsZero

\* The packet repeats the transmit time stamp stored for its anchor, and the
\* candidate of the update was the -1 of clockCorrectionEngineCalculate.
SameTxAsStored ==
  /\ last.processed
  /\ last.updated
  /\ Mask32(TsSub64(last.txAn_in_cl_An, last.before.txTime)) = TsZero
  /\ last.clockCorrectionCandidate = CC_FAILED

\* C5 as stated: a packet with the anchor tx time stamp stored for its anchor
\* (masked delta 0, candidate -1) leaves the anchor's clock correction and
\* bucket as they were, and no measurement is sent.
C5_SameTxSkipsSample ==
  SameTxAsStored =>
    /\ LastRecord.clockCorrectionStorage = last.before.clockCorrectionStorage
    /\ ~last.sent

\* What the claim says of one update from (c0, b0) with cand to (c1, b1).
UpdateAsClaimed(c0, b0, cand, reliable, c1, b1) ==
  /\ reliable <=> ((0 - CLOCK_CORRECTION_ACCEPTED_NOISE) < cand - c0
                     /\ cand - c0 < CLOCK_CORRECTION_ACCEPTED_NOISE)
  /\ reliable =>
       /\ 10 * (c1 - c0) - (10 - CLOCK_CORRECTION_FILTER) * (cand - c0) \in (0 - 5)..5
       /\ b1 = IF b0 + 1 < CLOCK_CORRECTION_BUCKET_MAX THEN b0 + 1
               ELSE CLOCK_CORRECTION_BUCKET_MAX

\* C10: an update returns reliable exactly when |cand - c| < NOISE; then c
\* becomes FILTER * c + (1 - FILTER) * cand (to the last digit kept) and the
\* bucket min(bucket + 1, BUCKET_MAX); and the processing of a packet goes on
\* to the peer selection only when its update was reliable.
C10_ReliableWithinNoiseThenSelect ==
  /\ CcUpdated =>
       UpdateAsClaimed(ccLast.before.clockCorrection, ccLast.before.clockCorrectionBucket,
                       ccLast.candidate, ccLast.reliable,
                       ccStorage.clockCorrection, ccStorage.clockCorrectionBucket)
  /\ last.updated =>
       UpdateAsClaimed(last.before.clockCorrectionStorage.clockCorrection,
                       last.before.clockCorrectionStorage.clockCorrectionBucket,
                       last.clockCorrectionCandidate, last.timeIsGood,
                       LastRecord.clockCorrectionStorage.clockCorrection,
                       LastRecord.clockCorrectionStorage.clockCorrectionBucket)
  /\ last.selectionDone => (last.updated /\ last.timeIsGood)
  /\ ~last.updated => ~last.timeIsGood

\* C10 witness: a reliable update moved the correction and met a full bucket.
C10_Witness ==
  /\ CcUpdated /\ ccLast.reliable
  /\ ccStorage.clockCorrection # ccLast.before.clockCorrection
  /\ ccLast.before.clockCorrectionBucket = CLOCK_CORRECTION_BUCKET_MAX

-----------------------------------------------------------------------------
(* Claims about the anchor storage (SpecStorage) *)

Slots == 0..(ANCHOR_STORAGE_COUNT - 1)
InitializedSlots(anchorStorage) == { i \in Slots : anchorStorage[i].isInitialized }
StoredIds(anchorStorage) == { anchorStorage[i].id : i \in InitializedSlots(anchorStorage) }

\* C11: in every state of the storage no two initialized slots hold the same
\* anchor id, whatever the registrations, the lookups of the peer selection
\* and the updates before.
C11_OneRecordPerId ==
  \A i, j \in InitializedSlots(anchorInfoArray) :
    anchorInfoArray[i].id = anchorInfoArray[j].id => i = j

\* An id that was evicted is created again by a lookup of the peer selection
\* while the storage is full, after registrations and lookups of ids stored.
C11_Witness ==
  /\ stLast.op = "create" /\ ~stLast.found
  /\ InitializedSlots(stLast.before) = Slots
  /\ \E k \in 1..(Len(stOrder) - 1) : stOrder[k].id = stLast.id
  /\ \E k \in DOMAIN stOrder : stOrder[k].registered

\* The counter of milliseconds has not wrapped.
NoWrapYet == TsLess(stTime, <<4096, 0>>)

\* Every call of the storage so far registered an id, each id once.
OnlyDistinctRegistrations ==
  /\ \A k \in DOMAIN stOrder : stOrder[k].registered
  /\ \A k, l \in DOMAIN stOrder : stOrder[k].id = stOrder[l].id => k = l

\* The last call took a slot that held a record.
StEvicted ==
  /\ stLast.op \in {"register", "create"} /\ ~stLast.found
  /\ InitializedSlots(stLast.before) = Slots

\* The first of the slots whose lastUpdateTime is the least.
OldestSlot(anchorStorage) ==
  CHOOSE i \in Slots :
    /\ \A j \in Slots : ~U32Less(anchorStorage[j].lastUpdateTime, anchorStorage[i].lastUpdateTime)
    /\ \A j \in Slots :
         anchorStorage[j].lastUpdateTime = anchorStorage[i].lastUpdateTime => i <= j

\* A record as initializeSlot leaves it, and as the registration that follows
\* leaves it.
FreshRecord(id) == [AnchorInfoZero EXCEPT !.id = id, !.isInitialized = TRUE]
IsFreshRecord(record, id) ==
  \/ record = FreshRecord(id)
  \/ /\ stLast.op = "register"
     /\ [record EXCEPT !.rxTime = TsZero, !.txTime = TsZero, !.seqNr = 0,
                       !.lastUpdateTime = 0] = FreshRecord(id)
     /\ record.lastUpdateTime = now_ms

\* C12: from the empty storage, after the registration (lookup or creation,
\* then rx/tx data) of N_STORAGE + k distinct ids at strictly increasing
\* times, the first k ids are absent and the other N_STORAGE are present;
\* each eviction takes the slot of the least lastUpdateTime, the first one
\* on ties, and leaves a zeroed record with the new id.
C12_EvictionOrder ==
  NoWrapYet =>
    /\ OnlyDistinctRegistrations =>
         LET n == Len(stOrder)
             k == IF n > ANCHOR_STORAGE_COUNT THEN n - ANCHOR_STORAGE_COUNT ELSE 0
         IN  /\ StoredIds(anchorInfoArray) = { stOrder[j].id : j \in (k + 1)..n }
             /\ \A j \in 1..k : ~tdoaStorageIsAnchorInStorage(anchorInfoArray, stOrder[j].id)
    /\ StEvicted =>
         /\ stLast.slot = OldestSlot(stLast.before)
         /\ IsFreshRecord(anchorInfoArray[stLast.slot], stLast.id)
         /\ \A i \in Slots \ {stLast.slot} : anchorInfoArray[i] = stLast.before[i]

\* As many ids more than slots as MaxEvictions have been registered.
C12_Witness ==
  /\ NoWrapYet /\ OnlyDistinctRegistrations
  /\ Len(stOrder) = ANCHOR_STORAGE_COUNT + MaxEvictions
  /\ StEvicted /\ stLast.op = "register"

\* C13: at most ANCHOR_STORAGE_COUNT records are initialized; a request for
\* an id that is not in the full storage hands out one of the slots, which
\* then holds the record of that id, and the other records stay.
C13_StorageCap ==
  /\ Cardinality(InitializedSlots(anchorInfoArray)) <= ANCHOR_STORAGE_COUNT
  /\ DOMAIN anchorInfoArray = Slots
  /\ StEvicted =>
       /\ stLast.slot \in Slots
       /\ anchorInfoArray[stLast.slot].isInitialized
       /\ anchorInfoArray[stLast.slot].id = stLast.id
       /\ InitializedSlots(anchorInfoArray) = Slots
       /\ tdoaStorageIsAnchorInStorage(anchorInfoArray, stLast.id)
       /\ Cardinality(StoredIds(anchorInfoArray)) = ANCHOR_STORAGE_COUNT

\* A second id has been evicted from the full storage.
C13_Witness ==
  /\ StEvicted
  /\ Cardinality({ stOrder[k].id : k \in DOMAIN stOrder }) = ANCHOR_STORAGE_COUNT + MaxEvictions
  /\ ~tdoaStorageIsAnchorInStorage(stLast.before, stLast.id)

\* What a note records happened less than a validity period of 2 s ago.
NotedWithin(note, period) ==
  note.set /\ TsLess(TsSubRaw(stTime, note.at), TsOfInt(period))

\* C15: the position of a record is reported only if a position was set on
\* the record since its creation and less than 2 s before now, whatever now
\* is, the first 2000 ms included.
C15_PositionOnlyIfFresh ==
  \A i \in InitializedSlots(anchorInfoArray) :
    stLast.reads.position[anchorInfoArray[i].id].valid
      => NotedWithin(stNotes[i].positioned, ANCHOR_POSITION_VALIDITY_PERIOD)

\* The ids of the records from slot i on that were updated less than 2 s ago.
RECURSIVE UpdatedWithinPeriodFrom(_)
UpdatedWithinPeriodFrom(i) ==
  IF i >= ANCHOR_STORAGE_COUNT THEN <<>>
  ELSE IF /\ anchorInfoArray[i].isInitialized
          /\ NotedWithin(stNotes[i].updated, ANCHOR_ACTIVE_VALIDITY_PERIOD)
       THEN <<anchorInfoArray[i].id>> \o UpdatedWithinPeriodFrom(i + 1)
       ELSE UpdatedWithinPeriodFrom(i + 1)

\* C16: the list of active ids holds, up to its size, the ids of the
\* initialized records updated less than 2 s before now, also while now is
\* below 2000 ms.
C16_ActiveIdsListed ==
  \A m \in ListSizes :
    LET active == UpdatedWithinPeriodFrom(0)
    IN  stLast.reads.active[m] =
          SubSeq(active, 1, IF Len(active) < m THEN Len(active) ELSE m)

-----------------------------------------------------------------------------
(* Claims about the remote data of a record (SpecRemote) *)

\* C14: the remote data stored for an id at time t is returned, with the
\* reception time and sequence number stored, and listed while
\* t <= now < t + 30 ms and is neither returned nor listed from t + 30 ms on
\* unless stored again; the time of flight stored for an id is returned
\* while t <= now < t + 2 s and not from t + 2 s on.  The times are those
\* of a counter of ms that has not wrapped.
C14_RemoteDataWindow ==
  NoWrapYet =>
  \A id \in RmIds :
    /\ stLast.reads.rx[id] =
         IF NotedWithin(stNotes.rx[id], REMOTE_DATA_VALIDITY_PERIOD)
         THEN [result |-> TRUE, rxTime |-> stNotes.rx[id].rxTime, seqNr |-> stNotes.rx[id].seqNr]
         ELSE [result |-> FALSE, rxTime |-> TsZero, seqNr |-> 0]
    /\ NotedWithin(stNotes.rx[id], REMOTE_DATA_VALIDITY_PERIOD)
         = (\E k \in DOMAIN stLast.reads.list : stLast.reads.list[k].id = id)
    /\ \A k \in DOMAIN stLast.reads.list :
         stLast.reads.list[k].id = id => stLast.reads.list[k].seqNr = stNotes.rx[id].seqNr
    /\ stLast.reads.tof[id] =
         IF NotedWithin(stNotes.tof[id], TOF_VALIDITY_PERIOD) THEN stNotes.tof[id].tof ELSE 0

-----------------------------------------------------------------------------
(* Claims about the peer selection (SpecMatch) *)

\* The remote data the selection of the last packet went through, and the
\* record in the storage of the id at place k of it.
MtList == tdoaStorageGetRemoteSeqNrList(stLast.before, MtCtx(stLast.before, now_ms))
MtRecordOf(id) ==
  stLast.before[CHOOSE i \in Slots : stLast.before[i].isInitialized /\ stLast.before[i].id = id]
MtTofHeld(id) ==
  \E j \in DOMAIN MtRecordOf(MtAnchor).remoteTof :
    /\ MtRecordOf(MtAnchor).remoteTof[j].id = id
    /\ MtRecordOf(MtAnchor).remoteTof[j].tof # 0
    /\ U32Less(now_ms, MtRecordOf(MtAnchor).remoteTof[j].endOfLife)

\* The candidate at place k is not excluded, has a record, a time of flight
\* that has not expired, and the sequence number reported for it.
Qualifies(k) ==
  /\ ~(stLast.doExcludeId /\ MtList[k].id = stLast.excludedId)
  /\ tdoaStorageIsAnchorInStorage(stLast.before, MtList[k].id)
  /\ MtTofHeld(MtList[k].id)
  /\ MtList[k].seqNr = MtRecordOf(MtList[k].id).seqNr

\* The first of the places of Q whose record was updated last.
YoungestOf(Q) ==
  CHOOSE k \in Q :
    \A j \in Q :
      \/ U32Less(MtRecordOf(MtList[j].id).lastUpdateTime, MtRecordOf(MtList[k].id).lastUpdateTime)
      \/ /\ MtRecordOf(MtList[j].id).lastUpdateTime = MtRecordOf(MtList[k].id).lastUpdateTime
         /\ k <= j

\* Scenario S5: anchors 1, 2 and 3 (A, B and C) updated at 100, 200 and 250,
\* and the packet of anchor 0 at 260 that reports the sequence numbers of A
\* and B, another one for C, and a time of flight to each.
S5Registered(anchorStorage, id, now) ==
  MtRegistered(tdoaStorageGetCreateAnchorCtx(anchorStorage, id, now).anchorStorage,
               tdoaStorageGetCreateAnchorCtx(anchorStorage, id, now).anchorCtx, id, now)
S5Storage ==
  MtReport(S5Registered(S5Registered(S5Registered(MtStorage, 1, 100), 2, 200), 3, 250),
           MtCtx(MtStorage, 260),
           [id \in MtCandidates |->
              IF id < 3 THEN "match" ELSE IF id = 3 THEN "mismatch" ELSE "none"], 1)
S5Peer ==
  MtPeer(findSuitableAnchor(S5Storage, 0, "TdoaEngineMatchingAlgorithmYoungest",
                            MtCtx(S5Storage, 260), FALSE, 0))
\* Scenario S6: the same with B excluded.
S6Peer ==
  MtPeer(findSuitableAnchor(S5Storage, 0, "TdoaEngineMatchingAlgorithmYoungest",
                            MtCtx(S5Storage, 260), TRUE, 2))

\* C17: the youngest matching gives, of the candidates that qualify, the
\* first of those updated last, and none only if none qualifies; scenario S5
\* gives B.
C17_YoungestSelection ==
  /\ (stLast.op = "select" /\ stLast.selectionDone
        /\ stLast.algorithm = "TdoaEngineMatchingAlgorithmYoungest") =>
       LET Q == { k \in DOMAIN MtList : Qualifies(k) }
       IN  IF Q = {} THEN ~stLast.found
           ELSE stLast.found /\ stLast.peer = MtList[YoungestOf(Q)].id
  /\ S5Peer = 2

\* The storage before the selection with no time of flight from MtAnchor to id.
WithoutTofTo(anchorStorage, anchorCtx, id) ==
  [anchorStorage EXCEPT ![anchorCtx.anchorInfo].remoteTof =
     [j \in DOMAIN @ |-> IF @[j].id = id THEN AnchorInfoZero.remoteTof[j] ELSE @[j]]]

\* The peer the selection gives with no id excluded.
PeerExcludingNone(anchorStorage) ==
  MtPeer(findSuitableAnchor(anchorStorage, stLast.offset, stLast.algorithm,
                            MtCtx(anchorStorage, now_ms), FALSE, 0))

\* C18: with either algorithm and an excluded id, the peer is not the
\* excluded id and no measurement is sent with it as first id; the peer is
\* the one the selection without exclusion gives when the excluded id is no
\* candidate; scenario S6 gives A.
C18_ExclusionHonoured ==
  /\ (stLast.op = "select" /\ stLast.selectionDone /\ stLast.doExcludeId) =>
       /\ stLast.peer # stLast.excludedId
       /\ stLast.sent => stLast.anchorIds[1] # stLast.excludedId
       /\ stLast.sent => stLast.anchorIds[1] = stLast.peer
       /\ stLast.peer = PeerExcludingNone(WithoutTofTo(stLast.before,
                                                       MtCtx(stLast.before, now_ms),
                                                       stLast.excludedId))
       /\ PeerExcludingNone(stLast.before) \notin {stLast.excludedId, stLast.peer}
            => PeerExcludingNone(stLast.before) = NoSlot
  /\ S6Peer = 1

\* The excluded id is the one the selection gives without exclusion, and
\* another peer was found and a measurement sent.
C18_Witness ==
  /\ stLast.op = "select" /\ stLast.selectionDone /\ stLast.doExcludeId
  /\ stLast.found /\ stLast.sent
  /\ PeerExcludingNone(stLast.before) = stLast.excludedId
  /\ Len(MtList) = Cardinality(MtCandidates)

\* The places of the list in circular order from matching.offset on that
\* qualify, counted from 0.
QualifyingFromOffset ==
  { j \in 0..(Len(MtList) - 1) : Qualifies(((matchingOffset + j) % Len(MtList)) + 1) }

\* C19: the random matching moves matching.offset on by one and gives the
\* first candidate that qualifies in circular order over the list from the
\* place of the new offset, each place taken once, and none only if none
\* qualifies.
C19_RandomSelection ==
  (stLast.op = "select" /\ stLast.selectionDone
     /\ stLast.algorithm = "TdoaEngineMatchingAlgorithmRandom") =>
    /\ matchingOffset = stLast.offset + 1
    /\ IF QualifyingFromOffset = {} THEN ~stLast.found
       ELSE /\ stLast.found
            /\ \E j \in QualifyingFromOffset :
                 /\ \A i \in QualifyingFromOffset : j <= i
                 /\ stLast.peer = MtList[((matchingOffset + j) % Len(MtList)) + 1].id

\* The first place from the offset does not qualify, a later one does, and
\* the scan has gone round the end of the list.
C19_Witness ==
  /\ stLast.op = "select" /\ stLast.selectionDone
  /\ stLast.algorithm = "TdoaEngineMatchingAlgorithmRandom"
  /\ stLast.found /\ 0 \notin QualifyingFromOffset
  /\ Len(MtList) = Cardinality(MtCandidates)
  /\ stLast.peer = MtList[1].id /\ stLast.sent

-----------------------------------------------------------------------------
(* Claims about the records of the driver's storage (Spec) *)

\* C20: the storage holds a record of an id only if a packet of the anchor
\* with that id has been received since the initialization.
C20_RecordsOnlyOfHeardAnchors == StoredIds(anchorInfoArray) \subseteq heard

-----------------------------------------------------------------------------
(* Claims about the driver's events (SpecDriver) *)

\* C21: an LPP packet that has been pending over TDOA2_LPP_PACKET_SEND_TIMEOUT
\* radio events of any kind without a packet from its destination, the
\* failed receptions included, has been dropped: while a packet is pending,
\* fewer events than that have gone by since it was fetched.
C21_DroppedAfterStalledEvents ==
  lppPacketToSend => lppLog.stalled < TDOA2_LPP_PACKET_SEND_TIMEOUT

IsPacketEvent == lastEvent.event = "eventPacketReceived"

\* C22: rangingOk is false after Initialize; an event leaves it true exactly
\* when it was true before or the event is a received TDoA2 packet of one of
\* the anchors, which sets it; so once true it stays true over every time-out,
\* failure and malformed packet until the next Initialize, and nothing else
\* sets it.
C22_RangingOkLatched ==
  /\ lastEvent.event \in {"none", "init"} => ~rangingOk
  /\ lastEvent.event \in Events =>
       rangingOk = (lastEvent.rangingOkBefore
                      \/ (/\ IsPacketEvent
                          /\ lastEvent.packet.type = "PACKET_TYPE_TDOA2"
                          /\ lastEvent.packet.sourceAnchor < LOCODECK_NR_OF_TDOA2_ANCHORS))
  /\ (IsPacketEvent /\ lastEvent.processed) => rangingOk

\* rangingOk was set by a packet before the last event, a failed reception or
\* a malformed packet, and is still set.
C22_Witness ==
  /\ rangingOk /\ lastEvent.rangingOkBefore
  /\ \/ lastEvent.event \in ReceiveFailures
     \/ IsPacketEvent /\ ~lastEvent.processed

IsMalformed(packet) ==
  packet.type # "PACKET_TYPE_TDOA2" \/ packet.sourceAnchor >= LOCODECK_NR_OF_TDOA2_ANCHORS

\* C23: a received packet of another type than TDoA2, or of a sender that is
\* none of the anchors, leaves the anchor storage with its clock corrections,
\* previousAnchor and rangingOk as they were and sends no measurement.
C23_MalformedPacketIgnored ==
  (IsPacketEvent /\ IsMalformed(lastEvent.packet)) =>
    /\ anchorInfoArray = lastEvent.before
    /\ previousAnchor = lastEvent.previousAnchorBefore
    /\ rangingOk = lastEvent.rangingOkBefore
    /\ ~lastEvent.sent /\ ~lastEvent.processed

\* A malformed packet of each kind arrives when the storage holds records
\* with a seeded clock correction.
C23_Witness ==
  /\ IsPacketEvent /\ IsMalformed(lastEvent.packet)
  /\ lastEvent.packet.type = "other" /\ lastEvent.packet.sourceAnchor = 0
  /\ rangingOk
  /\ \E s \in Slots : /\ anchorInfoArray[s].isInitialized /\ anchorInfoArray[s].id = 0
                      /\ anchorInfoArray[s].clockCorrectionStorage.clockCorrection # 0

RangingBit(state, a) == (state \div (2 ^ a)) % 2 = 1

\* C24: after every event handled by onEvent, bit a of the published ranging
\* state is set if and only if the tick count of the event is below
\* history[a].anchorStatusTimeout, for each anchor a.
C24_RangingStateBitmap ==
  lastEvent.event \in Events =>
    \A a \in Anchors : RangingBit(rangingState, a) <=> U32Less(lastEvent.now, history[a])

\* An event of each kind at tick 0, where the tick count equals the time-outs.
C24_Witness ==
  /\ lastEvent.event \in Events /\ lastEvent.now = 0
  /\ \A a \in Anchors : history[a] = 0 /\ ~RangingBit(rangingState, a)

\* C29: on every received packet the driver either transmits the pending LPP
\* packet or puts the radio back in receive mode, never both and never
\* neither; it transmits only a packet that was pending, on a TDoA2 packet
\* whose sender is the destination of the pending packet; right after the
\* transmission nothing is pending, so what is pending at the end of the
\* event is another packet of the queue, and no packet is transmitted twice.
C29_TransmitOrReceive ==
  /\ IsPacketEvent =>
       /\ lastEvent.radio \in {"transmit", "receive"}
       /\ (lastEvent.radio = "transmit") = lastEvent.lppSent
       /\ lastEvent.lppSent =>
            /\ lastEvent.pendingBefore
            /\ lastEvent.packet.type = "PACKET_TYPE_TDOA2"
            /\ lastEvent.packet.sourceAnchor = lastEvent.destBefore
            /\ ~lastEvent.pendingAfterRadio
            /\ lastEvent.serialBefore \in lppLog.transmitted
            /\ lppPacketToSend => lppLog.serial # lastEvent.serialBefore
  /\ ~lppLog.twice

\* A second packet of the queue is transmitted, after the first.
C29_Witness ==
  /\ IsPacketEvent /\ lastEvent.lppSent
  /\ Cardinality(lppLog.transmitted) = 2
  /\ lastEvent.serialBefore = 2

LppDiscarded ==
  lastEvent.pendingBefore /\ ~lastEvent.lppSent /\ ~lastEvent.pendingAfterRadio

\* C30: a received packet discards the pending LPP packet exactly when it is
\* the TDOA2_LPP_PACKET_SEND_TIMEOUT-th received packet since the fetch that
\* did not transmit it; a fetch of a new packet leaves the try counter at 0;
\* and while a packet is pending the counter is the number of such received
\* packets and is below TDOA2_LPP_PACKET_SEND_TIMEOUT.
C30_DiscardOnExactTimeout ==
  /\ IsPacketEvent =>
       /\ LppDiscarded <=> (/\ lastEvent.pendingBefore /\ ~lastEvent.lppSent
                            /\ lastEvent.missed = TDOA2_LPP_PACKET_SEND_TIMEOUT)
       /\ lastEvent.got => lppPacketSendTryCounter = 0
  /\ lppPacketToSend =>
       /\ lppPacketSendTryCounter = lppLog.missed
       /\ lppPacketSendTryCounter < TDOA2_LPP_PACKET_SEND_TIMEOUT

\* The second packet of the queue is discarded and nothing more comes out of
\* the queue.
C30_Witness ==
  /\ IsPacketEvent /\ LppDiscarded /\ lastEvent.serialBefore = 2
  /\ lastEvent.fetched /\ ~lastEvent.got
  /\ lastEvent.missed = TDOA2_LPP_PACKET_SEND_TIMEOUT

-----------------------------------------------------------------------------
(* Claims about the first packets of an anchor (Spec) *)


IsFirstPacket ==
  last.processed /\ last.before.rxTime = TsZero /\ last.before.txTime = TsZero

\* C25: a packet of an anchor whose record holds no times yet, because it
\* was created for this packet or by an earlier peer selection, updates no
\* clock correction and sends nothing; afterwards the record holds the
\* packet's receive time, transmit time and sequence number, its last update
\* is now, its clock correction is 0 and its bucket 0.
C25_FirstPacketOnlyStored ==
  IsFirstPacket =>
    /\ ~last.updated /\ ~last.timeIsGood /\ ~last.sent
    /\ LastRecord.isInitialized /\ LastRecord.id = last.anchor
    /\ LastRecord.rxTime = last.rxAn_by_T_in_cl_T
    /\ LastRecord.txTime = last.txAn_in_cl_An
    /\ LastRecord.seqNr = last.sequenceNr % 128
    /\ LastRecord.lastUpdateTime = last.now
    /\ LastRecord.clockCorrectionStorage = ClockCorrectionStorageZero

\* The first packet of anchor 1 comes after the packets of anchor 0, whose
\* record holds a seeded clock correction.
C25_Witness ==
  /\ IsFirstPacket /\ last.anchor = 1 /\ heard = {0, 1}
  /\ packetCount = MaxPackets
  /\ last.sequenceNr >= 128
  /\ \E s \in Slots : anchorInfoArray[s].isInitialized /\ anchorInfoArray[s].id = 0
                        /\ anchorInfoArray[s].clockCorrectionStorage.clockCorrection # 0

\* C26: the candidate of an update is computed from the times stored with
\* the packet before and the times of the new packet; a candidate within the
\* spec limits that finds the correction and the bucket at 0 is unreliable,
\* becomes the correction with the bucket still 0, and nothing is sent; the
\* packet after it with the same candidate is reliable.
C26_SecondPacketSeeds ==
  (last.processed /\ last.updated) =>
    /\ last.clockCorrectionCandidate =
         clockCorrectionEngineCalculate(last.rxAn_by_T_in_cl_T, last.before.rxTime,
                                        last.txAn_in_cl_An, last.before.txTime,
                                        TDOA_ENGINE_TRUNCATE_TO_ANCHOR_TS_BITMAP)
    /\ LastRecord.rxTime = last.rxAn_by_T_in_cl_T /\ LastRecord.txTime = last.txAn_in_cl_An
    /\ (/\ last.before.clockCorrectionStorage = ClockCorrectionStorageZero
        /\ WithinSpec(last.clockCorrectionCandidate)) =>
         /\ ~last.timeIsGood /\ ~last.sent
         /\ LastRecord.clockCorrectionStorage =
              [clockCorrection |-> last.clockCorrectionCandidate, clockCorrectionBucket |-> 0]
    /\ (/\ last.before.clockCorrectionStorage.clockCorrectionBucket = 0
        /\ last.before.clockCorrectionStorage.clockCorrection = last.clockCorrectionCandidate
        /\ WithinSpec(last.clockCorrectionCandidate)) =>
         /\ last.timeIsGood
         /\ LastRecord.clockCorrectionStorage.clockCorrectionBucket = 1

\* The third packet of an anchor, 10 ms after the second: the candidate is the
\* correction that the second has seeded, and the sample is reliable.
C26_Witness ==
  /\ last.processed /\ last.updated /\ last.timeIsGood /\ packetCount = 3 /\ heard = {last.anchor}
  /\ last.before.clockCorrectionStorage =
       [clockCorrection |-> last.clockCorrectionCandidate, clockCorrectionBucket |-> 0]
  /\ WithinSpec(last.clockCorrectionCandidate)

-----------------------------------------------------------------------------
(* Claims about a stream of identical candidates (SpecStream) *)

Abs(x) == IF x < 0 THEN 0 - x ELSE x

StreamError == ccStorage.clockCorrection - ccRun.candidate
StreamErrorBefore == ccLast.before.clockCorrection - ccRun.candidate

\* An update of the stream never moves the correction away from the
\* candidate; from within the accepted noise it is reliable and leaves a
\* tenth of the error, to the last digit kept; and after at most
\* CLOCK_CORRECTION_BUCKET_MAX + 1 updates the correction is within the
\* accepted noise of the candidate.
StreamStep ==
  ccLast.op = "update" =>
    /\ Abs(StreamError) <= Abs(StreamErrorBefore)
    /\ Abs(StreamErrorBefore) < CLOCK_CORRECTION_ACCEPTED_NOISE =>
         /\ ccLast.reliable
         /\ Abs(10 * StreamError - CLOCK_CORRECTION_FILTER * StreamErrorBefore) <= 5
    /\ ccRun.n >= CLOCK_CORRECTION_BUCKET_MAX + 1 =>
         Abs(StreamError) < CLOCK_CORRECTION_ACCEPTED_NOISE

\* C27: with a stream of identical candidates c* within the spec limits the
\* stored clock correction converges to c*: no update moves it away from c*,
\* an update from within the accepted noise multiplies the error by
\* CLOCK_CORRECTION_FILTER, and in the end the correction stays at c*.
C27_ConvergesToCandidate == [] StreamStep /\ <>[](StreamError = 0)

\* The correction has come from within the accepted noise to the candidate
\* in more than one reliable update.
C27_Witness ==
  /\ ccLast.op = "update" /\ ccLast.reliable
  /\ StreamError = 0 /\ StreamErrorBefore # 0
  /\ ccRun.n = 2 /\ ccStorage.clockCorrectionBucket = 2

-----------------------------------------------------------------------------
(* Claims about the remote data of a packet (SpecDriver) *)

\* The slot of the sender of the last packet, and its two tables before the
\* packet: those of its record, or empty ones if the record is new.
SenderSlot == lastEvent.anchorCtx.anchorInfo
SenderHadRecord ==
  /\ lastEvent.before[SenderSlot].isInitialized
  /\ lastEvent.before[SenderSlot].id = lastEvent.packet.sourceAnchor
RemoteDataBefore ==
  IF SenderHadRecord THEN lastEvent.before[SenderSlot].remoteAnchorData
  ELSE AnchorInfoZero.remoteAnchorData
RemoteTofBefore ==
  IF SenderHadRecord THEN lastEvent.before[SenderSlot].remoteTof
  ELSE AnchorInfoZero.remoteTof

RemoteRxEntry(i) ==
  [id |-> i, rxTime |-> lastEvent.packet.timestamps[i],
   seqNr |-> lastEvent.packet.sequenceNrs[i] % 128,
   endOfLife |-> U32Add(lastEvent.now, REMOTE_DATA_VALIDITY_PERIOD)]
RemoteTofEntry(i) ==
  [id |-> i, tof |-> lastEvent.packet.distances[i],
   endOfLife |-> U32Add(lastEvent.now, TOF_VALIDITY_PERIOD)]

\* An entry that has been written for anchor i; one that has never been
\* written holds id 0 and the end of life 0.
IsEntryOf(entry, i) == entry.id = i /\ entry.endOfLife # 0

OtherAnchors == Anchors \ {lastEvent.packet.sourceAnchor}
WithTimeStamp == {i \in OtherAnchors : lastEvent.packet.timestamps[i] # TsZero}
WithDistance == {i \in OtherAnchors : lastEvent.packet.distances[i] # 0}

\* C28: a processed packet of anchor a leaves in a's table of remote receive
\* times one entry (i, timestamps[i], sequenceNrs[i] & 0x7f) for each other
\* anchor i with a non-zero time stamp, and in a's table of times of flight
\* one entry (i, distances[i]) for each other i with a non-zero distance;
\* every other entry of the two tables is as before, so nothing is stored for
\* a itself or for a zero field, and the tables of the other records are as
\* before.
C28_RemoteDataStored ==
  (IsPacketEvent /\ lastEvent.processed) =>
    LET rx == anchorInfoArray[SenderSlot].remoteAnchorData
        tof == anchorInfoArray[SenderSlot].remoteTof
    IN  /\ \A i \in WithTimeStamp :
             Cardinality({k \in DOMAIN rx : rx[k] = RemoteRxEntry(i)}) = 1
        /\ \A k \in DOMAIN rx :
             rx[k] = RemoteDataBefore[k] \/ \E i \in WithTimeStamp : rx[k] = RemoteRxEntry(i)
        /\ \A i \in OtherAnchors \ WithTimeStamp : \A k \in DOMAIN rx :
             IsEntryOf(RemoteDataBefore[k], i) => rx[k] = RemoteDataBefore[k]
        /\ \A i \in WithDistance :
             Cardinality({k \in DOMAIN tof : tof[k] = RemoteTofEntry(i)}) = 1
        /\ \A k \in DOMAIN tof :
             tof[k] = RemoteTofBefore[k] \/ \E i \in WithDistance : tof[k] = RemoteTofEntry(i)
        /\ \A i \in OtherAnchors \ WithDistance : \A k \in DOMAIN tof :
             IsEntryOf(RemoteTofBefore[k], i) => tof[k] = RemoteTofBefore[k]
        /\ \A s \in Slots \ {SenderSlot} :
             /\ anchorInfoArray[s].remoteAnchorData = lastEvent.before[s].remoteAnchorData
             /\ anchorInfoArray[s].remoteTof = lastEvent.before[s].remoteTof

\* A packet without remote data follows, 10 ms later, one of the same anchor
\* with a time stamp for one anchor and a distance to another: the entries
\* stay, and those of another record too.
C28_Witness ==
  /\ IsPacketEvent /\ lastEvent.processed /\ SenderHadRecord
  /\ WithTimeStamp = {} /\ WithDistance = {}
  /\ \E k \in DOMAIN RemoteDataBefore :
       RemoteDataBefore[k].id # 0 /\ RemoteDataBefore[k].endOfLife = lastEvent.now + 20
  /\ \E k \in DOMAIN RemoteTofBefore : RemoteTofBefore[k].tof # 0

-----------------------------------------------------------------------------
(* Claims about the random matching over the range of its offset           *)
(* (SpecRandom)                                                            *)

\* The remote data that had not expired when the last selection ran.
RnList == tdoaStorageGetRemoteSeqNrList(stLast.before, MtCtx(stLast.before, now_ms))
RnSelectedFromNone == stLast.op = "select" /\ Len(RnList) = 0

\* C31: with the random matching, when the list of the remote data of the
\* current anchor that has not expired is empty, the selection gives no
\* peer, takes no remainder by zero, leaves the storage as it was and moves
\* the 8-bit matching.offset on by one, from 255 to 0, whatever its value.
C31_RandomWithoutCandidates ==
  RnSelectedFromNone =>
    /\ ~stLast.moduloByZero
    /\ ~stLast.found /\ stLast.peer = NoSlot
    /\ anchorInfoArray = stLast.before
    /\ matchingOffset = (stLast.offset + 1) % 256
    /\ matchingOffset \in 0..255

\* C31 witness: the selection that took matching.offset from 255 to 0 met
\* remote data that had all expired.
C31_Witness ==
  /\ RnSelectedFromNone
  /\ stLast.offset = 255 /\ matchingOffset = 0
  /\ \E j \in DOMAIN stLast.before[MtCtx(stLast.before, now_ms).anchorInfo].remoteAnchorData :
       stLast.before[MtCtx(stLast.before, now_ms).anchorInfo].remoteAnchorData[j].endOfLife # 0

-----------------------------------------------------------------------------
(* Claims about the store of remote data (SpecRemote) *)

RmEntriesBefore == stLast.before[RmCtx(stLast.before, now_ms).anchorInfo].remoteAnchorData
RmEntriesAfter == anchorInfoArray[RmCtx(anchorInfoArray, now_ms).anchorInfo].remoteAnchorData
RmHolders(id) == { i \in DOMAIN RmEntriesBefore : RmEntriesBefore[i].id = id }
RmOldest ==
  { i \in DOMAIN RmEntriesBefore :
      \A j \in DOMAIN RmEntriesBefore :
        ~U32Less(RmEntriesBefore[j].endOfLife, RmEntriesBefore[i].endOfLife) }
First(S) == CHOOSE i \in S : \A j \in S : i <= j
\* The entry the claim says a store for id is written to.
RmEntryFor(id) == IF RmHolders(id) # {} THEN First(RmHolders(id)) ELSE First(RmOldest)
\* The store wrote to that entry and to no other.
RmStoredInto(id) ==
  /\ RmEntriesAfter[RmEntryFor(id)] =
       [id |-> id, rxTime |-> stNotes.rx[id].rxTime, seqNr |-> stNotes.rx[id].seqNr,
        endOfLife |-> U32Add(now_ms, REMOTE_DATA_VALIDITY_PERIOD)]
  /\ \A j \in DOMAIN RmEntriesBefore \ {RmEntryFor(id)} : RmEntriesAfter[j] = RmEntriesBefore[j]
  /\ \A i \in Slots \ {RmCtx(anchorInfoArray, now_ms).anchorInfo} :
       anchorInfoArray[i] = stLast.before[i]

\* C32: a store of remote data for an id writes the entry that holds the id
\* if there is one, else the first of the entries with the smallest end of
\* life, sets its end of life to now + 30 ms and leaves the other entries as
\* they were; a read for the id at the same now returns the reception time
\* and the sequence number stored.
C32_StoreThenRead ==
  stLast.op = "rx" =>
    /\ RmStoredInto(stLast.id)
    /\ stLast.reads.rx[stLast.id] =
         [result |-> TRUE, rxTime |-> stNotes.rx[stLast.id].rxTime,
          seqNr |-> stNotes.rx[stLast.id].seqNr]

-----------------------------------------------------------------------------
(* Claims about the reads of the storage (SpecReads) *)

\* The slot that held id before the last call.
SlotBefore(id) ==
  CHOOSE i \in Slots : stLast.before[i].isInitialized /\ stLast.before[i].id = id
WasInStorage(id) == id \in StoredIds(stLast.before)

\* C33: a look-up of an id, the lists of ids and of active ids and the
\* driver's getAnchorPosition, getAnchorIdList and getActiveAnchorIdList
\* leave every record of the storage as it was, whether the id is held or
\* not; a look-up that creates on a miss, called for an id that is held,
\* returns true with the record of the id and leaves the storage as it was;
\* the storage changes with the calls of the event handler only.
C33_ReadsLeaveStorage ==
  /\ stLast.op = "read" =>
       /\ anchorInfoArray = stLast.before
       /\ stLast.found = WasInStorage(stLast.id)
       /\ stLast.found => stLast.slot = SlotBefore(stLast.id)
       /\ stLast.reads.position[stLast.id].contextFound = WasInStorage(stLast.id)
  /\ (stLast.op = "create" /\ WasInStorage(stLast.id)) =>
       /\ stLast.found /\ stLast.slot = SlotBefore(stLast.id)
       /\ anchorInfoArray = stLast.before
  /\ anchorInfoArray # stLast.before => stLast.op \in {"register", "create", "position"}

\* C33 witness: a full storage was read for an id it does not hold, after a
\* look-up that creates had been called for an id that was held.
C33_Witness ==
  /\ stLast.op = "read" /\ ~WasInStorage(stLast.id)
  /\ Cardinality(InitializedSlots(anchorInfoArray)) = ANCHOR_STORAGE_COUNT
  /\ \E k \in DOMAIN stOrder : \E j \in DOMAIN stOrder :
       j < k /\ stOrder[j].id = stOrder[k].id /\ ~stOrder[k].registered

-----------------------------------------------------------------------------
(* Claims about the statistics (SpecStats) *)

StatsTrackedValues(stats) == <<stats.clockCorrection, stats.tof, stats.tdoa>>
StatsDue == U32Less(statsLast.before.nextStatisticsTime, statsLast.now)
StatsAnchorAsked == statsLast.before.anchorId # statsLast.before.newAnchorId
StatsRemoteAsked == statsLast.before.remoteAnchorId # statsLast.before.newRemoteAnchorId

\* C34: tdoaStatsUpdate leaves the statistics as they were unless now is
\* past nextStatisticsTime; then clockCorrection, tof and tdoa are 0 if the
\* focus anchor id changed; tof and tdoa are 0 and clockCorrection is as it
\* was if the remote focus id alone changed; the three are as they were if
\* neither id changed; and nextStatisticsTime is now + 500 ms.
C34_StatsUpdate ==
  statsLast.op = "update" =>
    IF ~StatsDue THEN tdoaStats = statsLast.before
    ELSE /\ tdoaStats.nextStatisticsTime = U32Add(statsLast.now, 500)
         /\ StatsAnchorAsked => StatsTrackedValues(tdoaStats) = <<0, 0, 0>>
         /\ (~StatsAnchorAsked /\ StatsRemoteAsked) =>
              StatsTrackedValues(tdoaStats) = <<statsLast.before.clockCorrection, 0, 0>>
         /\ (~StatsAnchorAsked /\ ~StatsRemoteAsked) =>
              StatsTrackedValues(tdoaStats) = StatsTrackedValues(statsLast.before)
         /\ tdoaStats.anchorId = statsLast.before.newAnchorId
         /\ tdoaStats.remoteAnchorId = statsLast.before.newRemoteAnchorId

\* C34 witness: an update that was due met a new remote focus id alone and
\* values tracked for the ids in focus.
C34_Witness ==
  /\ statsLast.op = "update" /\ StatsDue
  /\ ~StatsAnchorAsked /\ StatsRemoteAsked
  /\ statsLast.before.clockCorrection # 0 /\ statsLast.before.tof # 0
  /\ tdoaStats.clockCorrection # 0 /\ tdoaStats.tof = 0

-----------------------------------------------------------------------------
(* Claims about the record of the anchor of a packet (SpecOwner) *)

\* The record holds the times and the sequence number of the last packet.
HoldsPacket(record) ==
  /\ record.isInitialized
  /\ record.rxTime = stLast.rxTime /\ record.txTime = stLast.txTime
  /\ record.seqNr = stLast.seqNr /\ record.lastUpdateTime = now_ms

\* C35: while a packet of anchor a is processed, the record its context
\* refers to keeps the id a, also when the peer selection takes a slot of a
\* full storage for a candidate that has no record; after the packet the
\* record with id a holds the reception time, the transmission time and the
\* sequence number of the packet, and no record with another id was written
\* with them.
C35_ContextKeepsItsRecord ==
  stLast.op = "packet" =>
    /\ stLast.processed[stLast.slot].isInitialized
    /\ stLast.processed[stLast.slot].id = stLast.anchor
    /\ \E i \in Slots : anchorInfoArray[i].id = stLast.anchor /\ HoldsPacket(anchorInfoArray[i])
    /\ \A i \in Slots :
         (anchorInfoArray[i].isInitialized /\ anchorInfoArray[i].id # stLast.anchor) =>
           anchorInfoArray[i] = stLast.processed[i]

-----------------------------------------------------------------------------
(* Claims about the records under the driver (Spec) *)

\* The record of slot i after a packet is the one before it, with what the
\* packet brought if the slot is the one of its sender: the id stays, and
\* the clock correction and the position stay unless the packet set them.
RecordKept(i) ==
  /\ anchorInfoArray'[i].isInitialized
  /\ anchorInfoArray'[i].id = anchorInfoArray[i].id
  /\ IF last'.processed /\ i = last'.anchorCtx.anchorInfo
     THEN /\ anchorInfoArray'[i].id = last'.anchor
          /\ ~last'.updated =>
               anchorInfoArray'[i].clockCorrectionStorage.clockCorrection
                 = anchorInfoArray[i].clockCorrectionStorage.clockCorrection
          /\ anchorInfoArray'[i].position.timestamp \in
               {anchorInfoArray[i].position.timestamp, now_ms'}
     ELSE anchorInfoArray'[i] = anchorInfoArray[i]

\* C36: under the driver, which processes the packets of the senders below
\* LOCODECK_NR_OF_TDOA2_ANCHORS and stores remote data of as many ids, with
\* no fewer slots than that, no step takes the slot of an initialized record
\* for another id: every id once stored keeps its slot and its data.
C36_RecordsStay ==
  [][\A i \in Slots : anchorInfoArray[i].isInitialized => RecordKept(i)]_vars

\* C36 witness: records of every id the driver handles, one of them taken
\* by a peer selection for an anchor no packet has come from.
C36_Witness ==
  /\ StoredIds(anchorInfoArray) = Anchors
  /\ heard # Anchors
  /\ packetCount >= LOCODECK_NR_OF_TDOA2_ANCHORS

-----------------------------------------------------------------------------
(* Claims about the peers that were never heard (SpecMatch) *)

\* No packet of id has been received: it has no record, or the record a
\* peer selection left for it, with no times and no sequence number.
NeverHeard(id) ==
  tdoaStorageIsAnchorInStorage(stLast.before, id) =>
    /\ MtRecordOf(id).rxTime = TsZero
    /\ MtRecordOf(id).seqNr = 0
    /\ MtRecordOf(id).lastUpdateTime = 0

\* C37: with either matching algorithm a candidate no packet has been
\* received from is not given as peer, and no measurement is sent with it
\* as the other anchor.
C37_NeverHeardIsNoPeer ==
  (stLast.op = "select" /\ stLast.selectionDone) =>
    /\ stLast.found => ~NeverHeard(stLast.peer)
    /\ stLast.sent => ~NeverHeard(stLast.anchorIds[1])

-----------------------------------------------------------------------------
(* Claims about the ranging state of an anchor just heard (SpecDriver) *)

\* C38: after a TDoA2 packet of an anchor a below
\* LOCODECK_NR_OF_TDOA2_ANCHORS has been processed, the ranging state
\* published at the end of the event has bit a set.
C38_HeardAnchorIsRanging ==
  (IsPacketEvent /\ lastEvent.processed) =>
    RangingBit(rangingState, lastEvent.packet.sourceAnchor)

-----------------------------------------------------------------------------
(* Claims about the driver's getAnchorPosition (SpecStorage) *)

\* What getAnchorPosition returned for id at the time of the last call, and
\* whether it filled in the position.
PositionReturned(id) == stLast.reads.position[id].contextFound
PositionFilled(id) ==
  stLast.reads.position[id].contextFound /\ stLast.reads.position[id].valid
\* The record of id was given a position less than 2 s ago.
PositionSetLately(id) ==
  \E i \in InitializedSlots(anchorInfoArray) :
    /\ anchorInfoArray[i].id = id
    /\ NotedWithin(stNotes[i].positioned, ANCHOR_POSITION_VALIDITY_PERIOD)

\* C39: getAnchorPosition returns true only when it has filled in a position
\* of the record of the id that was set less than 2 s ago; it returns false
\* when the id has no record and when the position of the record was never
\* set or has expired.
C39_PositionReturnedOnlyIfValid ==
  \A id \in StIds :
    /\ PositionReturned(id) => PositionFilled(id) /\ PositionSetLately(id)
    /\ ~tdoaStorageIsAnchorInStorage(anchorInfoArray, id) => ~PositionReturned(id)
    /\ ~PositionSetLately(id) => ~PositionReturned(id)
====
